---------------------------- MODULE Spec2Model ----------------------------
(***************************************************************************)
(* Model of the PDF question-answering bot: the chunker, the vector store  *)
(* (vector_store.py) and the handlers that drive indexing (handlers.py).   *)
(*                                                                         *)
(* A text is modelled by its whitespace-separated words, joined by single  *)
(* blanks; a word is a name whose character count and alphabetic count     *)
(* are given by WordLen and WordAlpha.  A chunk is a sequence of words.    *)
(***************************************************************************)
EXTENDS Integers, Sequences, FiniteSets, TLC

\* ------------------------------------------------------------------ bounds
MaxWords == 4          \* longest word sequence given to the chunker alone
MaxChunks == 7         \* chunks the chunker loop may append before the model stops following it
MaxCalls == 3          \* add_document calls followed in one behaviour of the store

\* ------------------------------------------------------------- vocabulary
Vocab == {"information", "documentation", "specification", "architecture", "2024-11-03", "a",
          "electroencephalographically"}

WordLen(w) ==
  CASE w = "information" -> 11
    [] w = "documentation" -> 13
    [] w = "specification" -> 13
    [] w = "architecture" -> 12
    [] w = "2024-11-03" -> 10
    [] w = "a" -> 1
    [] w = "electroencephalographically" -> 27

WordAlpha(w) == IF w = "2024-11-03" THEN 0 ELSE WordLen(w)

Min(a, b) == IF a < b THEN a ELSE b

\* the word w, n times
Rep(w, n) == [k \in 1..n |-> w]

\* sum(len(word) for word in words), summed by halves
RECURSIVE SumLen(_)
SumLen(ws) ==
  IF ws = <<>> THEN 0
  ELSE IF Len(ws) = 1 THEN WordLen(ws[1])
  ELSE SumLen(SubSeq(ws, 1, Len(ws) \div 2)) + SumLen(SubSeq(ws, Len(ws) \div 2 + 1, Len(ws)))

\* sum(c.isalpha() for c in chunk), summed by halves
RECURSIVE SumAlpha(_)
SumAlpha(ws) ==
  IF ws = <<>> THEN 0
  ELSE IF Len(ws) = 1 THEN WordAlpha(ws[1])
  ELSE SumAlpha(SubSeq(ws, 1, Len(ws) \div 2)) + SumAlpha(SubSeq(ws, Len(ws) \div 2 + 1, Len(ws)))

\* len(chunk): the words and the single blanks between them
CharLen(ws) == IF ws = <<>> THEN 0 ELSE SumLen(ws) + (Len(ws) - 1)

BoundedSeq(S, n) == UNION {[1..k -> S] : k \in 0..n}

\* ------------------------------------------------------------------ state
VARIABLES
  cfg,          \* the store's chunk_size, chunk_overlap, batch_size
  words,        \* chunker: text.split()
  chunks,       \* chunker: the list being built
  start,        \* chunker: window start
  end,          \* chunker: window end
  split_pc,     \* chunker: position in _split_text_into_chunks
  seen_hashes,  \* VectorStore.seen_hashes
  collection,   \* the backend collection: the records persisted
  call,         \* the add_document call in progress, or NoCall
  last_ret,     \* what the last finished add_document call returned and did
  ok_docs,      \* doc_ids for which some add_document call returned True
  failed_docs,  \* doc_ids for which some add_document call returned False
  attempted,    \* doc_ids given to add_document so far
  ncalls,       \* add_document calls started
  cleared_docs, \* doc_ids that had chunks when clear_all last emptied the store
  clear_ret,    \* what clear_all returned, until the store is used again
  sr,           \* the last direct call of a search function: arguments, backend answer, return
  read_faults,  \* backend reads that may still raise in this behaviour
  pdf_files,    \* handlers.pdf_files: the files the bot has listed
  tasks,        \* the handler coroutines and background tasks of the event loop
  searched_docs, \* documents a scoped query has searched so far
  ex,           \* the extract_paragraphs_from_pdf call in progress, or NoExtract
  disk,         \* the names in the working directory
  bot_data,     \* context.bot_data['pdf_files'], <<>> while there is none
  user_selected_doc, \* handlers.user_selected_doc: str(user_id) -> selected file
  keyboards,    \* per user the document buttons of the keyboard last sent to them
  callbacks,    \* the button_callback coroutines waiting at an await
  routed,       \* the last text message handle_message has routed
  updates       \* updates the bot has received

splitVars == <<words, chunks, start, end, split_pc>>
storeVars == <<seen_hashes, collection, call, last_ret, ok_docs, failed_docs, attempted, ncalls,
               cleared_docs, clear_ret>>
botVars == <<pdf_files, tasks, searched_docs>>
vars == <<cfg, words, chunks, start, end, split_pc,
          seen_hashes, collection, call, last_ret, ok_docs, failed_docs, attempted, ncalls,
          cleared_docs, clear_ret, sr, read_faults, pdf_files, tasks, searched_docs, ex,
          disk, bot_data, user_selected_doc, keyboards, callbacks, routed, updates>>

searchVars == <<sr, read_faults>>
userVars == <<disk, bot_data, user_selected_doc, keyboards, callbacks, routed, updates>>

NoSearch == [op |-> "none"]

NoExtract == [pc |-> "none"]

User_ids == {1, 2}
NoKeyboard == [sent |-> FALSE]
NoMessage == [user |-> 0]

NoCall == [pc |-> "none"]
NoRet == [doc_id |-> "none"]

\* ---------------------------------------------------------------- chunker
SplitVocab == {"information", "a"}

SplitConfigs ==
  {[chunk_size |-> c, chunk_overlap |-> o, batch_size |-> 2] : c \in 1..3, o \in 0..2} \
  {k \in [chunk_size : 1..3, chunk_overlap : 0..2, batch_size : {2}] : k.chunk_overlap >= k.chunk_size}

SliceFromSecond(ws, st, en) == SubSeq(ws, st + 2, en)

\* words[start:end]
Slice(ws, st, en) == SubSeq(ws, st + 1, en)

\* end = min(start + self.chunk_size, len(words))
WindowEnd(c, ws, st) == Min(st + c.chunk_size, Len(ws))

NextStartOneMore(c, en) == en - Min(c.chunk_overlap + 1, c.chunk_size - 1)

\* start = end - self.chunk_overlap
NextStart(c, en) == en - c.chunk_overlap

\* if len(words) <= self.chunk_size
FitsOneChunk(c, ws) == Len(ws) <= c.chunk_size

\* the loop of _split_text_into_chunks run for at most fuel iterations;
\* returns = FALSE when the loop is still running after them, or when an
\* iteration leaves start where it was and so repeats for ever
RECURSIVE SplitLoop(_, _, _, _, _)
SplitLoop(c, ws, st, acc, fuel) ==
  IF ~(st < Len(ws)) THEN [returns |-> TRUE, chunks |-> acc]
  ELSE IF fuel = 0 THEN [returns |-> FALSE, chunks |-> acc]
  ELSE LET en == WindowEnd(c, ws, st)
           acc2 == Append(acc, Slice(ws, st, en))
           st2 == NextStart(c, en)
       IN IF st2 >= Len(ws) THEN [returns |-> TRUE, chunks |-> acc2]
          ELSE IF st2 = st THEN [returns |-> FALSE, chunks |-> acc2]
          ELSE SplitLoop(c, ws, st2, acc2, fuel - 1)

\* _split_text_into_chunks(text); a loop that revisits a window start after
\* Len(ws) + 1 iterations never ends
SplitTextIntoChunks(c, ws) ==
  IF FitsOneChunk(c, ws) THEN [returns |-> TRUE, chunks |-> <<ws>>]
  ELSE SplitLoop(c, ws, 0, <<>>, Len(ws) + 1)

InitSplitIdle ==
  /\ words = <<>> /\ chunks = <<>> /\ start = 0 /\ end = 0 /\ split_pc = "idle"

InitBotIdle == tasks = <<>> /\ searched_docs = {} /\ pdf_files = <<>>

InitSearchIdle == sr = NoSearch /\ read_faults = 0

InitExtractIdle == ex = NoExtract

InitUsersIdle ==
  /\ disk = {} /\ bot_data = <<>> /\ user_selected_doc = <<>>
  /\ keyboards = [u \in User_ids |-> NoKeyboard]
  /\ callbacks = {} /\ routed = NoMessage /\ updates = 0

InitStoreIdle ==
  /\ seen_hashes = {} /\ collection = {} /\ call = NoCall /\ last_ret = NoRet
  /\ ok_docs = {} /\ failed_docs = {} /\ attempted = {} /\ ncalls = 0
  /\ cleared_docs = {} /\ clear_ret = "none"

InitSplit ==
  /\ cfg \in SplitConfigs
  /\ words \in BoundedSeq(SplitVocab, MaxWords)
  /\ chunks = <<>> /\ start = 0 /\ end = 0 /\ split_pc = "entry"
  /\ InitStoreIdle
  /\ InitBotIdle
  /\ InitSearchIdle
  /\ InitExtractIdle
  /\ InitUsersIdle

\* lines 278-284: one chunk for a short text, else enter the loop at start = 0
SplitEnter ==
  /\ split_pc = "entry"
  /\ IF FitsOneChunk(cfg, words)
       THEN chunks' = <<words>> /\ split_pc' = "done"
       ELSE chunks' = <<>> /\ split_pc' = "loop"
  /\ start' = 0 /\ end' = 0
  /\ UNCHANGED <<cfg, words>> /\ UNCHANGED storeVars /\ UNCHANGED botVars /\ UNCHANGED searchVars
  /\ UNCHANGED ex /\ UNCHANGED userVars

\* lines 285-293: one iteration of the while loop
SplitIter ==
  /\ split_pc = "loop"
  /\ start < Len(words)
  /\ Len(chunks) < MaxChunks
  /\ end' = WindowEnd(cfg, words, start)
  /\ chunks' = Append(chunks, Slice(words, start, end'))
  /\ start' = NextStart(cfg, end')
  /\ split_pc' = IF start' >= Len(words) THEN "done" ELSE "loop"
  /\ UNCHANGED <<cfg, words>> /\ UNCHANGED storeVars /\ UNCHANGED botVars /\ UNCHANGED searchVars
  /\ UNCHANGED ex /\ UNCHANGED userVars

NextSplit == SplitEnter \/ SplitIter

SpecSplit == InitSplit /\ [][NextSplit]_vars

\* ------------------------------------------------------------ vector store
Docs == {"a.pdf", "b.pdf", "c.pdf", "d.pdf", "j.pdf"}

\* the text of each document: a.pdf has four chunks of ten words, the second
\* all digits; b.pdf is the first chunk of a.pdf; d.pdf is ten one-letter
\* words; j.pdf is five words of 139 characters
TextOf(d) ==
  CASE d = "a.pdf" -> Rep("information", 10) \o Rep("2024-11-03", 10)
                        \o Rep("documentation", 10) \o Rep("specification", 10)
    [] d = "b.pdf" -> Rep("information", 10)
    [] d = "c.pdf" -> Rep("architecture", 10)
    [] d = "d.pdf" -> Rep("a", 10)
    [] d = "e.pdf" -> <<>>
    [] d = "f.pdf" -> Rep("documentation", 10)
    [] d = "g.pdf" -> Rep("specification", 10)
    [] d = "h.pdf" -> Rep("information", 5) \o Rep("documentation", 5)
    [] d = "i.pdf" -> Rep("information", 10)
    [] d = "j.pdf" -> Rep("electroencephalographically", 5)

StoreConfigs ==
  {[chunk_size |-> 10, chunk_overlap |-> 0, batch_size |-> 2],
   [chunk_size |-> 10, chunk_overlap |-> 2, batch_size |-> 2]}

MinChunkChars == 100

MinChunkWordsFive == 2 + 3

MinChunkWords == 10

\* _passes_quality_check(chunk)
PassesQualityCheck(chunk) ==
  /\ CharLen(chunk) # 0
  /\ ~(CharLen(chunk) < MinChunkChars)
  /\ ~(Len(chunk) < MinChunkWords)
  /\ ~(CharLen(chunk) > 0 /\ 10 * SumAlpha(chunk) < 3 * CharLen(chunk))
  /\ ~(Len(chunk) > 0 /\ SumLen(chunk) < 2 * Len(chunk))

\* _calculate_chunk_hash(chunk): SHA-1 of the chunk text
CalculateChunkHash(chunk) == <<"sha1", chunk>>

GenerateUniqueIdPerCall(doc_id, chunk_index) ==
  <<"sha1_8", doc_id, "_chunk_", chunk_index + 10 * ncalls>>

GenerateUniqueIdByIndex(doc_id, chunk_index) == <<"sha1_8", "", "_chunk_", chunk_index>>

\* _generate_unique_id(doc_id, chunk_index): path hash, "_chunk_", index
GenerateUniqueId(doc_id, chunk_index) == <<"sha1_8", doc_id, "_chunk_", chunk_index>>

IsDuplicateNever(h, seen) == FALSE

\* if chunk_hash in self.seen_hashes
IsDuplicate(h, seen) == h \in seen

\* the entry add_document appends to doc_batch / meta_batch / id_batch
BatchEntry(doc_id, i, chunk) ==
  [id |-> GenerateUniqueId(doc_id, i), doc_id |-> doc_id, chunk_index |-> i,
   chunk_hash |-> CalculateChunkHash(chunk), text |-> chunk]

\* the chunks of a document that pass the quality gate
PassingChunks(d) ==
  LET cs == SplitTextIntoChunks(cfg, TextOf(d)).chunks
  IN {cs[k] : k \in {j \in 1..Len(cs) : PassesQualityCheck(cs[j])}}

\* what add_document(d, TextOf(d)) persists on a store that has seen nothing:
\* the first occurrence of every quality-passing chunk
ExpectedRecords(d) ==
  LET cs == SplitTextIntoChunks(cfg, TextOf(d)).chunks
  IN {BatchEntry(d, k - 1, cs[k]) :
        k \in {j \in 1..Len(cs) : /\ PassesQualityCheck(cs[j])
                                  /\ \A m \in 1..(j - 1) : cs[m] # cs[j]}}

PersistedUnder(d) == {r \in collection : r.doc_id = d}

BatchFullLate(c, batch) == Len(batch) > c.batch_size

\* if len(doc_batch) >= self.batch_size
BatchFull(c, batch) == Len(batch) >= c.batch_size

max_retries_four == 3 + 1

max_retries == 3

ShouldRetryAlways(attempt) == attempt < max_retries

\* if attempt < max_retries - 1
ShouldRetry(attempt) == attempt < max_retries - 1

\* except Exception as reconnect_error (line 172): a failed reconnect is caught
ReconnectErrorCaught == TRUE

CollectionAddReplacing(coll, batch) == {batch[k] : k \in 1..Len(batch)}

\* collection.add of a batch that the backend accepts: records under ids the
\* collection does not hold yet are stored
CollectionAdd(coll, batch) ==
  coll \cup {batch[k] : k \in {j \in 1..Len(batch) : \A r \in coll : r.id # batch[j].id}}

BatchIds(batch) == {batch[k].id : k \in 1..Len(batch)}

Ev(e, t) == [ev |-> e, t |-> t]

\* add_document returns: the frame is popped and the outcome recorded
ReturnFrom(c, result) ==
  /\ call' = NoCall
  /\ last_ret' = [doc_id |-> c.doc_id, result |-> result, batches |-> c.batches,
                  flush_log |-> c.flush_log, flush_ret |-> c.flush_ret,
                  i |-> c.i, nchunks |-> Len(c.chunks),
                  prior_ok |-> c.prior_ok, others |-> c.others, first |-> c.first,
                  readd |-> c.readd, after_clear |-> c.after_clear,
                  accepted |-> c.accepted]
  /\ ok_docs' = IF result THEN ok_docs \cup {c.doc_id} ELSE ok_docs
  /\ failed_docs' = IF result THEN failed_docs ELSE failed_docs \cup {c.doc_id}

\* lines 66-75: add_document(doc_id, text) is entered and the text is split
EnterAddDocument(doc, text) ==
  /\ ncalls' = ncalls + 1
  /\ attempted' = attempted \cup {doc}
  /\ LET sp == SplitTextIntoChunks(cfg, text)
     IN call' = [pc |-> IF sp.returns THEN "loop" ELSE "hang",
                 doc_id |-> doc, chunks |-> sp.chunks, i |-> 0, doc_batch |-> <<>>,
                 accepted |-> {},
                 attempt |-> 0, backoff_time |-> 1, last |-> FALSE,
                 batches |-> <<>>, flush_log |-> <<>>, flush_ret |-> "none",
                 prior_ok |-> doc \in ok_docs, others |-> attempted \ {doc},
                 first |-> doc \notin attempted,
                 readd |-> \E r \in collection : r.doc_id = doc,
                 after_clear |-> doc \in cleared_docs]
  /\ clear_ret' = "none"
  /\ UNCHANGED <<cfg, seen_hashes, collection, last_ret, ok_docs, failed_docs, cleared_docs>>
  /\ UNCHANGED splitVars

\* a caller of the store calls add_document(doc, text of doc)
AddDocument(doc) ==
  /\ call = NoCall
  /\ ncalls < MaxCalls
  /\ EnterAddDocument(doc, TextOf(doc))
  /\ UNCHANGED botVars /\ UNCHANGED searchVars
  /\ UNCHANGED ex /\ UNCHANGED userVars

\* lines 77-81: the chunk fails the quality gate and is skipped
AddSkipQuality ==
  /\ call.pc = "loop" /\ call.i < Len(call.chunks)
  /\ ~PassesQualityCheck(call.chunks[call.i + 1])
  /\ call' = [call EXCEPT !.i = @ + 1]
  /\ UNCHANGED <<cfg, seen_hashes, collection, last_ret, ok_docs, failed_docs, attempted, ncalls>>
  /\ UNCHANGED splitVars /\ UNCHANGED botVars /\ UNCHANGED searchVars /\ UNCHANGED <<cleared_docs, clear_ret>>
  /\ UNCHANGED ex /\ UNCHANGED userVars

\* lines 83-87: the chunk's hash was seen before and the chunk is skipped
AddSkipDuplicate ==
  /\ call.pc = "loop" /\ call.i < Len(call.chunks)
  /\ PassesQualityCheck(call.chunks[call.i + 1])
  /\ IsDuplicate(CalculateChunkHash(call.chunks[call.i + 1]), seen_hashes)
  /\ call' = [call EXCEPT !.i = @ + 1]
  /\ UNCHANGED <<cfg, seen_hashes, collection, last_ret, ok_docs, failed_docs, attempted, ncalls>>
  /\ UNCHANGED splitVars /\ UNCHANGED botVars /\ UNCHANGED searchVars /\ UNCHANGED <<cleared_docs, clear_ret>>
  /\ UNCHANGED ex /\ UNCHANGED userVars

\* lines 89-108: the chunk joins the batch and its hash is marked as seen;
\* a full batch goes to _add_batch
AddAccept ==
  /\ call.pc = "loop" /\ call.i < Len(call.chunks)
  /\ LET chunk == call.chunks[call.i + 1]
         batch == Append(call.doc_batch, BatchEntry(call.doc_id, call.i, chunk))
     IN /\ PassesQualityCheck(chunk)
        /\ ~IsDuplicate(CalculateChunkHash(chunk), seen_hashes)
        /\ seen_hashes' = seen_hashes \cup {CalculateChunkHash(chunk)}
        /\ call' = LET c == [call EXCEPT !.doc_batch = batch,
                                          !.accepted = @ \cup {batch[Len(batch)].id}]
                   IN IF BatchFull(cfg, batch)
                        THEN [c EXCEPT !.pc = "flush", !.last = FALSE,
                                       !.attempt = 0, !.backoff_time = 1,
                                       !.flush_log = <<>>, !.flush_ret = "running"]
                        ELSE [c EXCEPT !.i = @ + 1]
  /\ UNCHANGED <<cfg, collection, last_ret, ok_docs, failed_docs, attempted, ncalls>>
  /\ UNCHANGED splitVars /\ UNCHANGED botVars /\ UNCHANGED searchVars /\ UNCHANGED <<cleared_docs, clear_ret>>
  /\ UNCHANGED ex /\ UNCHANGED userVars

\* lines 120-122: after the loop the remaining chunks go to _add_batch
AddFlushRemainder ==
  /\ call.pc = "loop" /\ call.i = Len(call.chunks)
  /\ call.doc_batch # <<>>
  /\ call' = [call EXCEPT !.pc = "flush", !.last = TRUE, !.attempt = 0, !.backoff_time = 1,
                          !.flush_log = <<>>, !.flush_ret = "running"]
  /\ UNCHANGED <<cfg, seen_hashes, collection, last_ret, ok_docs, failed_docs, attempted, ncalls>>
  /\ UNCHANGED splitVars /\ UNCHANGED botVars /\ UNCHANGED searchVars /\ UNCHANGED <<cleared_docs, clear_ret>>
  /\ UNCHANGED ex /\ UNCHANGED userVars

\* lines 121, 130-131: nothing is left to flush, add_document returns True
AddReturnEmpty ==
  /\ call.pc = "loop" /\ call.i = Len(call.chunks)
  /\ call.doc_batch = <<>>
  /\ ReturnFrom(call, TRUE)
  /\ UNCHANGED <<cfg, seen_hashes, collection, attempted, ncalls>>
  /\ UNCHANGED splitVars /\ UNCHANGED botVars /\ UNCHANGED searchVars /\ UNCHANGED <<cleared_docs, clear_ret>>
  /\ UNCHANGED ex /\ UNCHANGED userVars

\* lines 154-159 and 110-118 / 123-131: collection.add succeeds, _add_batch
\* returns True; add_document empties the batch and goes on, or returns True
\* after the last batch
BatchAddOk ==
  /\ call.pc = "flush"
  /\ collection' = CollectionAdd(collection, call.doc_batch)
  /\ LET c == [call EXCEPT !.flush_log = Append(@, Ev("add_ok", 0)), !.flush_ret = "true",
                           !.batches = Append(@, [ids |-> BatchIds(call.doc_batch), ok |-> TRUE])]
     IN IF call.last
          THEN ReturnFrom(c, TRUE)
          ELSE /\ call' = [c EXCEPT !.pc = "loop", !.doc_batch = <<>>, !.i = @ + 1]
               /\ UNCHANGED <<last_ret, ok_docs, failed_docs>>
  /\ UNCHANGED <<cfg, seen_hashes, attempted, ncalls>>
  /\ UNCHANGED splitVars /\ UNCHANGED botVars /\ UNCHANGED searchVars /\ UNCHANGED <<cleared_docs, clear_ret>>
  /\ UNCHANGED ex /\ UNCHANGED userVars

\* lines 161-176 and 113-115 / 126-128: collection.add raises; _add_batch
\* goes on to wait and retry, or after the last attempt returns False and
\* add_document returns False
BatchAddFail ==
  /\ call.pc = "flush"
  /\ LET c == [call EXCEPT !.flush_log = Append(@, Ev("add_fail", 0))]
     IN IF ShouldRetry(call.attempt)
          THEN /\ call' = [c EXCEPT !.pc = "sleep"]
               /\ UNCHANGED <<last_ret, ok_docs, failed_docs>>
          ELSE ReturnFrom([c EXCEPT !.flush_ret = "false",
                                    !.batches = Append(@, [ids |-> BatchIds(call.doc_batch), ok |-> FALSE])],
                          FALSE)
  /\ UNCHANGED <<cfg, seen_hashes, collection, attempted, ncalls>>
  /\ UNCHANGED splitVars /\ UNCHANGED botVars /\ UNCHANGED searchVars /\ UNCHANGED <<cleared_docs, clear_ret>>
  /\ UNCHANGED ex /\ UNCHANGED userVars

BackoffKept(backoff_time) == backoff_time

\* backoff_time *= 2 (line 167)
NextBackoff(backoff_time) == backoff_time * 2

\* lines 166-167: time.sleep(backoff_time); backoff_time *= 2
BatchSleep ==
  /\ call.pc = "sleep"
  /\ call' = [call EXCEPT !.flush_log = Append(@, Ev("sleep", call.backoff_time)),
                          !.backoff_time = NextBackoff(@), !.pc = "reconnect"]
  /\ UNCHANGED <<cfg, seen_hashes, collection, last_ret, ok_docs, failed_docs, attempted, ncalls>>
  /\ UNCHANGED splitVars /\ UNCHANGED botVars /\ UNCHANGED searchVars /\ UNCHANGED <<cleared_docs, clear_ret>>
  /\ UNCHANGED ex /\ UNCHANGED userVars

\* the next iteration of `for attempt in range(max_retries)`, or line 178
AfterReconnect(c) ==
  IF c.attempt + 1 < max_retries
    THEN /\ call' = [c EXCEPT !.attempt = @ + 1, !.pc = "flush"]
         /\ UNCHANGED <<last_ret, ok_docs, failed_docs>>
    ELSE ReturnFrom([c EXCEPT !.flush_ret = "false",
                              !.batches = Append(@, [ids |-> BatchIds(c.doc_batch), ok |-> FALSE])],
                    FALSE)

\* lines 170-171, 180-195: _reconnect_client() succeeds
BatchReconnectOk ==
  /\ call.pc = "reconnect"
  /\ AfterReconnect([call EXCEPT !.flush_log = Append(@, Ev("reconnect_ok", 0))])
  /\ UNCHANGED <<cfg, seen_hashes, collection, attempted, ncalls>>
  /\ UNCHANGED splitVars /\ UNCHANGED botVars /\ UNCHANGED searchVars /\ UNCHANGED <<cleared_docs, clear_ret>>
  /\ UNCHANGED ex /\ UNCHANGED userVars

\* lines 170-173, 196-198: _reconnect_client() raises; _add_batch catches it
\* (an error that escaped would be caught by add_document, lines 133-135)
BatchReconnectFail ==
  /\ call.pc = "reconnect"
  /\ LET c == [call EXCEPT !.flush_log = Append(@, Ev("reconnect_fail", 0))]
     IN IF ReconnectErrorCaught
          THEN AfterReconnect(c)
          ELSE ReturnFrom([c EXCEPT !.flush_ret = "raised"], FALSE)
  /\ UNCHANGED <<cfg, seen_hashes, collection, attempted, ncalls>>
  /\ UNCHANGED splitVars /\ UNCHANGED botVars /\ UNCHANGED searchVars /\ UNCHANGED <<cleared_docs, clear_ret>>
  /\ UNCHANGED ex /\ UNCHANGED userVars

seen_hashes_kept(seen) == seen

\* self.seen_hashes.clear() (line 480)
seen_hashes_cleared(seen) == {}

\* clear_all lines 478-482: client.reset() succeeds, the hash cache is emptied
\* and True is returned
ClearAllOk ==
  /\ call = NoCall
  /\ collection' = {}
  /\ seen_hashes' = seen_hashes_cleared(seen_hashes)
  /\ cleared_docs' = {r.doc_id : r \in collection}
  /\ clear_ret' = "true"
  /\ ok_docs' = {} /\ failed_docs' = {} /\ attempted' = {}
  /\ last_ret' = NoRet
  /\ UNCHANGED <<cfg, call, ncalls>>
  /\ UNCHANGED splitVars /\ UNCHANGED botVars /\ UNCHANGED searchVars
  /\ UNCHANGED ex /\ UNCHANGED userVars

\* clear_all lines 479, 483-485: client.reset() raises and False is returned
ClearAllFail ==
  /\ call = NoCall
  /\ clear_ret' = "false"
  /\ UNCHANGED <<cfg, seen_hashes, collection, call, last_ret, ok_docs, failed_docs,
                 attempted, ncalls, cleared_docs>>
  /\ UNCHANGED splitVars /\ UNCHANGED botVars /\ UNCHANGED searchVars
  /\ UNCHANGED ex /\ UNCHANGED userVars

\* the process is started again: line 32 gives an empty seen_hashes, the
\* persisted collection is opened again (lines 36-46)
Restart ==
  /\ call = NoCall
  /\ seen_hashes' = {}
  /\ ok_docs' = {} /\ failed_docs' = {} /\ attempted' = {}
  /\ clear_ret' = "none" /\ cleared_docs' = {}
  /\ last_ret' = NoRet
  /\ UNCHANGED <<cfg, collection, call, ncalls>>
  /\ UNCHANGED splitVars /\ UNCHANGED botVars /\ UNCHANGED searchVars
  /\ UNCHANGED ex /\ UNCHANGED userVars

StoreStep ==
  \/ AddSkipQuality \/ AddSkipDuplicate \/ AddAccept \/ AddFlushRemainder \/ AddReturnEmpty
  \/ BatchAddOk \/ BatchAddFail \/ BatchSleep \/ BatchReconnectOk \/ BatchReconnectFail

InitStore ==
  /\ cfg \in StoreConfigs
  /\ InitSplitIdle
  /\ InitStoreIdle
  /\ InitBotIdle
  /\ InitSearchIdle
  /\ InitExtractIdle
  /\ InitUsersIdle

NextStore ==
  \/ \E doc \in Docs : AddDocument(doc)
  \/ StoreStep
  \/ ClearAllOk \/ ClearAllFail \/ Restart

Spec == InitStore /\ [][NextStore]_vars

\* ----------------------------------------------------------------- search
MaxResults == 2        \* largest n_results / max_chunks given to a search function
MaxReadFaults == 1     \* backend reads that raise in one behaviour

Queries == {"q1", "q2"}

\* the backend's cosine distance (hnsw:space cosine, lines 43-46) between the
\* embeddings of a query and a chunk, in hundredths
WordDistance(query, w) ==
  CASE w = "information" -> IF query = "q1" THEN 11 ELSE 100
    [] w = "documentation" -> IF query = "q1" THEN 25 ELSE 0
    [] w = "specification" -> IF query = "q1" THEN 150 ELSE 43
    [] w = "architecture" -> IF query = "q1" THEN 150 ELSE 186
    [] OTHER -> 200

Distance(query, chunk) ==
  (WordDistance(query, chunk[1]) + WordDistance(query, chunk[Len(chunk)])) \div 2

SimilarityScoreLinear(distance) == [num |-> 200 - distance, den |-> 200]

\* similarity_score = 1.0 / (1.0 + distance), kept as a fraction
SimilarityScore(distance) == [num |-> 100, den |-> 100 + distance]

\* a >= b on fractions with positive denominators
ScoreGeq(a, b) == a.num * b.den >= b.num * a.den

\* a similarity_threshold given in hundredths
ThresholdScore(t) == [num |-> t, den |-> 100]

Thresholds == {15, 50, 90}

DefaultThresholdHalf == 49 + 1

\* similarity_threshold: float = 0.15
DefaultThreshold == 15

PassesThresholdAlways(score, t) == TRUE

\* if similarity_score >= similarity_threshold
PassesThreshold(score, t) == ScoreGeq(score, ThresholdScore(t))

NoWhere == [all |-> TRUE]

\* whether the next backend read raises
ReadRaises == IF read_faults > 0 THEN {FALSE, TRUE} ELSE {FALSE}

Bit(b) == IF b THEN 1 ELSE 0

\* n reads of this step raised
AfterReadFaults(n) == read_faults' = read_faults - n

\* n_results=n_results * 2
QueryLimit(n_results) == n_results * 2

DocumentFilterNone(doc_id) == NoWhere

\* where={"doc_id": doc_id}
DocumentFilter(doc_id) == [doc_id |-> doc_id]

\* the records a where-clause selects
Matching(where) ==
  IF where = NoWhere THEN collection ELSE {r \in collection : r.doc_id = where.doc_id}

\* collection.query(query_texts=[query], n_results=limit, where=...): either it
\* raises, or it answers with up to limit distinct matching records and
\* their distances, nearest first
BackendQuery(query, limit, where) ==
  LET M == Matching(where)
      m == Min(limit, Cardinality(M))
      Cand(r) == [rec |-> r, distance |-> Distance(query, r.text)]
  IN (IF read_faults > 0 THEN {[raised |-> TRUE, cands |-> <<>>]} ELSE {})
       \cup {[raised |-> FALSE, cands |-> [k \in 1..m |-> Cand(s[k])]] :
               s \in {f \in [1..m -> M] :
                        /\ \A i, j \in 1..m : i # j => f[i] # f[j]
                        /\ \A i, j \in 1..m :
                             i < j => Distance(query, f[i].text) <= Distance(query, f[j].text)}}

\* lines 330-337: the dict built for a candidate
ResultOf(c) ==
  [doc_id |-> c.rec.doc_id, chunk_index |-> c.rec.chunk_index, text |-> c.rec.text,
   similarity_score |-> SimilarityScore(c.distance)]

\* lines 318-337: the candidates at or above the threshold, in backend order
RECURSIVE FilteredResults(_, _)
FilteredResults(cands, t) ==
  IF cands = <<>> THEN <<>>
  ELSE LET r == ResultOf(Head(cands))
       IN (IF PassesThreshold(r.similarity_score, t) THEN <<r>> ELSE <<>>)
            \o FilteredResults(Tail(cands), t)

\* list.sort(key=similarity_score, reverse=True) places x into a list that is
\* already sorted: after every element whose score is not below x's
RECURSIVE InsertByScore(_, _)
InsertByScore(sorted, x) ==
  IF sorted = <<>> THEN <<x>>
  ELSE IF ScoreGeq(Head(sorted).similarity_score, x.similarity_score)
       THEN <<Head(sorted)>> \o InsertByScore(Tail(sorted), x)
       ELSE <<x>> \o sorted

\* filtered_results.sort(key=lambda x: x["similarity_score"], reverse=True)
RECURSIVE SortByScore(_)
SortByScore(rs) ==
  IF rs = <<>> THEN <<>>
  ELSE InsertByScore(SortByScore(SubSeq(rs, 1, Len(rs) - 1)), rs[Len(rs)])

\* rs[:n]
Take(rs, n) == SubSeq(rs, 1, Min(n, Len(rs)))

TruncateToLimit(rs, n_results) == Take(rs, QueryLimit(n_results))

\* final_results = filtered_results[:n_results]
Truncate(rs, n_results) == Take(rs, n_results)

\* search / search_in_document after the backend answered: [] when the query
\* raised (lines 351-353, 428-430), else filter, sort and truncate
SearchReturn(resp, n_results, t) ==
  IF resp.raised THEN <<>>
  ELSE Truncate(SortByScore(FilteredResults(resp.cands, t)), n_results)

NotFoundContext == "Keine relevanten Informationen gefunden."

\* f"{score:.3f}": the score in thousandths, rounded to nearest
FormatScore(score) == (2000 * score.num + score.den) \div (2 * score.den)

\* lines 372-382, 440-448: the context built from the chunks that were found
CombinedContext(found) ==
  IF found = <<>> THEN [context |-> NotFoundContext, chunks_info |-> <<>>]
  ELSE [context |-> [k \in 1..Len(found) |->
                       <<"CHUNK_START", FormatScore(found[k].similarity_score),
                         found[k].text, "CHUNK_END">>],
        chunks_info |-> found]

\* the documents' records the store can hold after add_document calls: for
\* each document the chunks of its first batches
StoredAfter(d, m) ==
  {r \in ExpectedRecords(d) :
     Cardinality({x \in ExpectedRecords(d) : x.chunk_index < r.chunk_index}) < m}

ReachableStored(d) ==
  LET N == Cardinality(ExpectedRecords(d))
  IN {StoredAfter(d, m) : m \in {k \in 0..N : k % cfg.batch_size = 0 \/ k = N}}

SearchConfig == [chunk_size |-> 10, chunk_overlap |-> 0, batch_size |-> 2]

SearchIndexes ==
  {A \cup B \cup C : A \in ReachableStored("a.pdf"), B \in ReachableStored("b.pdf"),
                     C \in ReachableStored("c.pdf")}

RecordSearch(op, query, doc_id, n_results, t, resp, ret) ==
  /\ sr' = [op |-> op, query |-> query, doc_id |-> doc_id, n_results |-> n_results,
            threshold |-> t, raised |-> resp.raised, cands |-> resp.cands, ret |-> ret]
  /\ AfterReadFaults(Bit(resp.raised))
  /\ UNCHANGED cfg /\ UNCHANGED splitVars /\ UNCHANGED storeVars /\ UNCHANGED botVars

\* search(query, n_results, similarity_threshold)
Search ==
  \E query \in Queries, n_results \in 1..MaxResults, t \in Thresholds :
    \E resp \in BackendQuery(query, QueryLimit(n_results), NoWhere) :
      RecordSearch("search", query, "", n_results, t, resp,
               SearchReturn(resp, n_results, t))
  /\ UNCHANGED ex /\ UNCHANGED userVars

\* search_in_document(query, doc_id, n_results, similarity_threshold)
SearchInDocument ==
  \E query \in Queries, doc_id \in Docs, n_results \in 1..MaxResults, t \in Thresholds :
    \E resp \in BackendQuery(query, QueryLimit(n_results), DocumentFilter(doc_id)) :
      RecordSearch("search_in_document", query, doc_id, n_results, t, resp,
               SearchReturn(resp, n_results, t))
  /\ UNCHANGED ex /\ UNCHANGED userVars

\* get_combined_context(query, max_chunks): search with the default threshold
GetCombinedContext ==
  \E query \in Queries, max_chunks \in 1..MaxResults :
    \E resp \in BackendQuery(query, QueryLimit(max_chunks), NoWhere) :
      RecordSearch("get_combined_context", query, "", max_chunks, DefaultThreshold, resp,
               CombinedContext(SearchReturn(resp, max_chunks, DefaultThreshold)))
  /\ UNCHANGED ex /\ UNCHANGED userVars

\* get_combined_context_for_document(query, doc_id, max_chunks)
GetCombinedContextForDocument ==
  \E query \in Queries, doc_id \in Docs, max_chunks \in 1..MaxResults :
    \E resp \in BackendQuery(query, QueryLimit(max_chunks), DocumentFilter(doc_id)) :
      RecordSearch("get_combined_context_for_document", query, doc_id, max_chunks,
               DefaultThreshold, resp,
               CombinedContext(SearchReturn(resp, max_chunks, DefaultThreshold)))
  /\ UNCHANGED ex /\ UNCHANGED userVars

\* the backend holds a chunk of the document
HasDocument(d) == \E r \in collection : r.doc_id = d

\* vector_store.has_document(doc_id): what the read finds, or False when the
\* read raises (lines 391-393)
HasDocumentAssumed(raised, d) == IF raised THEN TRUE ELSE HasDocument(d)

HasDocumentReturn(raised, d) == IF raised THEN FALSE ELSE HasDocument(d)

\* has_document(doc_id): the get with the doc_id filter at line 387, the
\* return False of the except at lines 391-393
HasDocumentCall ==
  \E doc_id \in Docs, raised \in ReadRaises :
    RecordSearch("has_document", "", doc_id, 0, DefaultThreshold,
             [raised |-> raised, cands |-> <<>>], HasDocumentReturn(raised, doc_id))
  /\ UNCHANGED ex /\ UNCHANGED userVars

InitSearch ==
  /\ cfg = SearchConfig
  /\ InitSplitIdle
  /\ seen_hashes = {} /\ call = NoCall /\ last_ret = NoRet
  /\ ok_docs = {} /\ failed_docs = {} /\ attempted = {} /\ ncalls = 0
  /\ cleared_docs = {} /\ clear_ret = "none"
  /\ collection \in SearchIndexes
  /\ InitBotIdle
  /\ sr = NoSearch /\ read_faults = MaxReadFaults
  /\ InitExtractIdle
  /\ InitUsersIdle

NextSearch ==
  \/ Search \/ SearchInDocument \/ GetCombinedContext \/ GetCombinedContextForDocument
  \/ HasDocumentCall

SpecSearch == InitSearch /\ [][NextSearch]_vars

\* ---------------------------------------------------------------- handlers
MaxTasks == 3          \* coroutines and background tasks followed in one behaviour
MaxQueries == 1        \* query handlers followed in one behaviour of the query specification

\* the PDF files the bot has listed; d.pdf has no chunk of quality and e.pdf
\* no extractable page
BotFiles == <<"b.pdf", "c.pdf", "d.pdf", "e.pdf">>

BotDocs == {pdf_files[k] : k \in 1..Len(pdf_files)}

\* the module-level store: VectorStore() with chunk_overlap > 0, scaled
BotConfig == [chunk_size |-> 10, chunk_overlap |-> 2, batch_size |-> 2]

\* pdf_parser.extract_paragraphs_from_pdf(document_name): the stripped page texts
Paragraphs(d) == IF d = "e.pdf" THEN <<>> ELSE <<TextOf(d)>>

\* "\n\n".join(paragraphs)
RECURSIVE JoinParagraphs(_)
JoinParagraphs(ps) == IF ps = <<>> THEN <<>> ELSE Head(ps) \o JoinParagraphs(Tail(ps))

\* positions of a handler inside synchronous code, between two awaits
SyncPcs == {"adding", "visit", "search", "rank"}

\* the event loop is inside synchronous code: an add_document call, or a
\* coroutine that has not reached its next await
Busy == call # NoCall \/ \E k \in 1..Len(tasks) : tasks[k].pc \in SyncPcs

\* a stretch of text, given by its lower-case form and the letter case it is
\* written in
Piece(txt, case) == [txt |-> txt, case |-> case]

\* not_found_patterns (llm_client.py lines 159-166)
not_found_patterns ==
  {"information nicht gefunden", "information not found", "keine informationen gefunden",
   "no information found", "nicht in den kontexten", "not in the contexts"}

\* "INFORMATION NICHT GEFUNDEN"
NotFoundSentinel == Piece("information nicht gefunden", "upper")

\* what the model server can answer: nothing, an answer, the sentinel as the
\* prompt asks for it, a not-found phrasing in mixed case inside a sentence,
\* one in lower case after some other text
OllamaReplies ==
  {<<>>,
   <<Piece("the answer, with a quote.", "mixed")>>,
   <<NotFoundSentinel>>,
   <<Piece("the answer is ", "mixed"), Piece("not in the contexts", "lower")>>,
   <<Piece("leider: ", "mixed"), Piece("information nicht gefunden", "mixed"), Piece(".", "mixed")>>}

\* _call_ollama_api: the server answers with status 200, or the call raises
\* (no connection, timeout, another status)
OllamaOutcomes ==
  {[raised |-> TRUE, reply |-> <<>>]} \cup {[raised |-> FALSE, reply |-> r] : r \in OllamaReplies}

NoOutcome == [raised |-> FALSE, reply |-> <<>>, pending |-> TRUE]

LowerKept(text) == text

\* response.lower()
Lower(text) == [k \in 1..Len(text) |-> Piece(text[k].txt, "lower")]

\* pattern in text, for a pattern written in the given case
Contains(text, pattern, case) == \E k \in 1..Len(text) : text[k] = Piece(pattern, case)

\* not response or response.strip() == ""
IsBlankText(text) == \A k \in 1..Len(text) : text[k].txt = " "

\* _parse_and_validate_response(response, question), lines 155-170 and 182
ParseAndValidateResponse(response) ==
  IF IsBlankText(response)
    THEN <<NotFoundSentinel, Piece(" - keine antwort vom llm erhalten.", "mixed")>>
  ELSE IF \E pattern \in not_found_patterns : Contains(Lower(response), pattern, "lower")
    THEN <<NotFoundSentinel>>
  ELSE response

\* f"[System Error] An unexpected error occurred: {e}" (line 58)
SystemErrorText ==
  <<Piece("[system error] an unexpected error occurred: ", "mixed"),
    Piece("cannot connect to host", "mixed")>>

\* ask_ollama(question, context, chunks_info), lines 39-58
AskOllama(outcome) ==
  IF outcome.raised THEN SystemErrorText ELSE ParseAndValidateResponse(outcome.reply)

\* if "INFORMATION NICHT GEFUNDEN" in response (handlers.py lines 289, 328)
SaysNotFound(response) == Contains(response, NotFoundSentinel.txt, NotFoundSentinel.case)

NewTask(kind, d, q) ==
  [kind |-> kind, doc |-> d, query |-> q, pc |-> "start", rest |-> <<>>, files |-> <<>>,
   needs_index |-> FALSE, passes |-> 0, unindexed |-> FALSE, later |-> FALSE,
   searched |-> FALSE, ensure |-> "none", all_results |-> <<>>, visits |-> <<>>,
   asked |-> FALSE, handed |-> <<>>, reply |-> "none",
   llm |-> NoOutcome, response |-> <<>>, shown |-> <<>>]

\* _ensure_document_indexed lines 210-214: return if has_document answers
\* True, else start an indexing pass and wait for the extraction
EnsureEnter(t, has, ifIndexed) ==
  IF has THEN [ifIndexed EXCEPT !.ensure = "indexed"]
  ELSE [t EXCEPT !.pc = "extracting", !.passes = @ + 1]

\* the coroutine goes on after _ensure_document_indexed has returned
AfterEnsure(t, outcome) ==
  IF t.kind = "index" THEN [t EXCEPT !.pc = "done", !.ensure = outcome]
  ELSE [t EXCEPT !.pc = "search", !.ensure = outcome]

NothingFoundNever(rs) == FALSE

\* if not chunks_info / if not all_results
NothingFound(rs) == rs = <<>>

\* get_combined_context_for_document(..., max_chunks=4 by default), line 319
SpecificMaxChunks == 4

GlobalMaxChunksThree == 2 + 1

\* max_chunks=2 and chunks_info[:2], lines 256-258
GlobalMaxChunks == 2

\* best_results = all_results[:4], line 276
MaxBestResults == 4

GlobalUnsorted(rs) == rs

\* all_results.sort(key=lambda x: x["similarity_score"], reverse=True)
GlobalSorted(rs) == SortByScore(rs)

\* lines 258-261: the chunks of one document, tagged with their file
Tagged(found, pdf_file) ==
  [k \in 1..Len(found) |->
     [doc_id |-> found[k].doc_id, chunk_index |-> found[k].chunk_index,
      text |-> found[k].text, similarity_score |-> found[k].similarity_score,
      source_pdf |-> pdf_file]]

RestAfterAbort(rest, failed) == IF failed THEN <<>> ELSE Tail(rest)

\* the for loop goes on with the next file, whatever happened to this one
\* (lines 252, 262-264)
RestAfter(rest, failed) == Tail(rest)

\* button_callback lines 167-185: a doc_<i> button is pressed; the selection
\* is stored, needs_index is taken, the handler awaits edit_message_text
ButtonPress(d) ==
  /\ ~Busy
  /\ Len(tasks) < MaxTasks
  /\ \E raised \in ReadRaises :
       /\ tasks' = Append(tasks, [NewTask("button", d, "none") EXCEPT
                                    !.pc = "edit",
                                    !.needs_index = ~HasDocumentReturn(raised, d)])
       /\ AfterReadFaults(Bit(raised))
  /\ UNCHANGED <<cfg, searched_docs, pdf_files>>
  /\ UNCHANGED splitVars /\ UNCHANGED storeVars /\ UNCHANGED sr
  /\ UNCHANGED ex /\ UNCHANGED userVars

\* button_callback lines 188-198: asyncio.create_task(_ensure_document_indexed)
\* when needs_index, then the keyboard is sent
ButtonSpawn(k) ==
  /\ ~Busy
  /\ tasks[k].kind = "button" /\ tasks[k].pc = "edit"
  /\ tasks[k].needs_index => Len(tasks) < MaxTasks
  /\ LET ts == [tasks EXCEPT ![k].pc = "done"]
     IN tasks' = IF tasks[k].needs_index
                 THEN Append(ts, NewTask("index", tasks[k].doc, "none")) ELSE ts
  /\ UNCHANGED <<cfg, searched_docs, pdf_files>>
  /\ UNCHANGED splitVars /\ UNCHANGED storeVars /\ UNCHANGED searchVars
  /\ UNCHANGED ex /\ UNCHANGED userVars

\* _ensure_document_indexed lines 208-214, run as a background task
IndexStart(k) ==
  /\ ~Busy
  /\ tasks[k].kind = "index" /\ tasks[k].pc = "start"
  /\ \E raised \in ReadRaises :
       /\ tasks' = [tasks EXCEPT ![k] =
                      EnsureEnter(@, HasDocumentReturn(raised, @.doc), [@ EXCEPT !.pc = "done"])]
       /\ AfterReadFaults(Bit(raised))
  /\ UNCHANGED <<cfg, searched_docs, pdf_files>>
  /\ UNCHANGED splitVars /\ UNCHANGED storeVars /\ UNCHANGED sr
  /\ UNCHANGED ex /\ UNCHANGED userVars

\* handle_message lines 237-239 and _handle_specific_search lines 316-318: a
\* text message of a user whose selection is d; has_document is asked at
\* line 317 and, when it answers False, again at line 210
MessageSpecific(d, q) ==
  /\ ~Busy
  /\ Len(tasks) < MaxTasks
  /\ \E raised1, raised2 \in ReadRaises :
       LET t == [NewTask("specific", d, q) EXCEPT !.unindexed = ~HasDocument(d),
                                                 !.later = d \in searched_docs]
           found == [t EXCEPT !.pc = "search"]
           has1 == HasDocumentReturn(raised1, d)
           has2 == HasDocumentReturn(raised2, d)
       IN /\ has1 => ~raised2
          /\ Bit(raised1) + Bit(raised2) <= read_faults
          /\ tasks' = Append(tasks, IF has1 THEN found ELSE EnsureEnter(t, has2, found))
          /\ AfterReadFaults(Bit(raised1) + Bit(raised2))
  /\ UNCHANGED <<cfg, searched_docs, pdf_files>>
  /\ UNCHANGED splitVars /\ UNCHANGED storeVars /\ UNCHANGED sr
  /\ UNCHANGED ex /\ UNCHANGED userVars

\* handle_message lines 240-241 and _handle_global_search lines 246-252: a text
\* message of a user without a selection; the loop over pdf_files begins
MessageGlobal(q) ==
  /\ ~Busy
  /\ Len(tasks) < MaxTasks
  /\ pdf_files # <<>>
  /\ tasks' = Append(tasks, [NewTask("global", "none", q) EXCEPT
                               !.rest = pdf_files, !.files = pdf_files, !.pc = "visit"])
  /\ UNCHANGED <<cfg, searched_docs, pdf_files>>
  /\ UNCHANGED splitVars /\ UNCHANGED storeVars /\ UNCHANGED searchVars
  /\ UNCHANGED ex /\ UNCHANGED userVars

\* _handle_global_search lines 252-254 and _ensure_document_indexed lines
\* 210-214: the next file of the loop; when has_document answers True the
\* search follows at once, else an indexing pass starts
GlobalVisit(k) ==
  /\ call = NoCall
  /\ tasks[k].kind = "global" /\ tasks[k].pc = "visit"
  /\ LET t == [tasks[k] EXCEPT !.doc = Head(tasks[k].rest)]
     IN \E raised \in ReadRaises :
          /\ tasks' = [tasks EXCEPT ![k] =
                         EnsureEnter(t, HasDocumentReturn(raised, t.doc),
                                     [t EXCEPT !.pc = "search"])]
          /\ AfterReadFaults(Bit(raised))
  /\ UNCHANGED <<cfg, searched_docs, pdf_files>>
  /\ UNCHANGED splitVars /\ UNCHANGED storeVars /\ UNCHANGED sr
  /\ UNCHANGED ex /\ UNCHANGED userVars

\* _handle_global_search lines 256-264: the file is searched, at most two of
\* its chunks are appended to all_results and the loop goes on
GlobalSearch(k) ==
  /\ call = NoCall
  /\ tasks[k].kind = "global" /\ tasks[k].pc = "search"
  /\ LET t == tasks[k]
     IN \E resp \in BackendQuery(t.query, QueryLimit(GlobalMaxChunks), DocumentFilter(t.doc)) :
          LET cc == CombinedContext(SearchReturn(resp, GlobalMaxChunks, DefaultThreshold))
              found == IF NothingFound(cc.chunks_info) THEN <<>>
                       ELSE Tagged(Take(cc.chunks_info, GlobalMaxChunks), t.doc)
              rest == RestAfter(t.rest, resp.raised \/ t.ensure = "add_failed")
          IN /\ AfterReadFaults(Bit(resp.raised))
             /\ tasks' = [tasks EXCEPT ![k] =
                         [t EXCEPT !.all_results = @ \o found,
                                   !.visits = Append(@, [doc |-> t.doc, ensure |-> t.ensure,
                                                         raised |-> resp.raised,
                                                         found |-> found]),
                                   !.rest = rest,
                                   !.pc = IF rest = <<>> THEN "rank" ELSE "visit"]]
  /\ UNCHANGED <<cfg, searched_docs, pdf_files>>
  /\ UNCHANGED splitVars /\ UNCHANGED storeVars /\ UNCHANGED sr
  /\ UNCHANGED ex /\ UNCHANGED userVars

\* _handle_global_search lines 265-288: without results the handler replies
\* that nothing was found; else the results are sorted, the first four are
\* handed to ask_ollama and the handler awaits the answer
GlobalRank(k) ==
  /\ call = NoCall
  /\ tasks[k].kind = "global" /\ tasks[k].pc = "rank"
  /\ LET t == tasks[k]
     IN tasks' = [tasks EXCEPT ![k] =
                    IF NothingFound(t.all_results)
                    THEN [t EXCEPT !.pc = "replying", !.reply = "no_info"]
                    ELSE [t EXCEPT !.pc = "replying", !.asked = TRUE,
                                   !.handed = Take(GlobalSorted(t.all_results),
                                                   MaxBestResults)]]
  /\ UNCHANGED <<cfg, searched_docs, pdf_files>>
  /\ UNCHANGED splitVars /\ UNCHANGED storeVars /\ UNCHANGED searchVars
  /\ UNCHANGED ex /\ UNCHANGED userVars

\* _handle_specific_search lines 319-327: the selected document is searched;
\* without chunks the handler replies that nothing was found, else the chunks
\* are handed to ask_ollama
SpecificSearch(k) ==
  /\ call = NoCall
  /\ tasks[k].kind = "specific" /\ tasks[k].pc = "search"
  /\ LET t == tasks[k]
     IN \E resp \in BackendQuery(t.query, QueryLimit(SpecificMaxChunks), DocumentFilter(t.doc)) :
          LET cc == CombinedContext(SearchReturn(resp, SpecificMaxChunks, DefaultThreshold))
          IN /\ AfterReadFaults(Bit(resp.raised))
             /\ tasks' = [tasks EXCEPT ![k] =
                         IF NothingFound(cc.chunks_info)
                         THEN [t EXCEPT !.pc = "replying", !.searched = TRUE,
                                        !.reply = "no_info"]
                         ELSE [t EXCEPT !.pc = "replying", !.searched = TRUE,
                                        !.asked = TRUE, !.handed = cc.chunks_info]]
  /\ searched_docs' = searched_docs \cup {tasks[k].doc}
  /\ UNCHANGED <<cfg, pdf_files>>
  /\ UNCHANGED splitVars /\ UNCHANGED storeVars /\ UNCHANGED sr
  /\ UNCHANGED ex /\ UNCHANGED userVars

\* _ensure_document_indexed lines 214-217: the extraction returned nothing
ExtractEmpty(k) ==
  /\ ~Busy
  /\ tasks[k].pc = "extracting"
  /\ Paragraphs(tasks[k].doc) = <<>>
  /\ tasks' = [tasks EXCEPT ![k] = AfterEnsure(@, "empty")]
  /\ UNCHANGED <<cfg, searched_docs, pdf_files>>
  /\ UNCHANGED splitVars /\ UNCHANGED storeVars /\ UNCHANGED searchVars
  /\ UNCHANGED ex /\ UNCHANGED userVars

\* _ensure_document_indexed lines 214-223: the extraction returned paragraphs
\* and add_document is called
ExtractDone(k) ==
  /\ ~Busy
  /\ tasks[k].pc = "extracting"
  /\ Paragraphs(tasks[k].doc) # <<>>
  /\ EnterAddDocument(tasks[k].doc, JoinParagraphs(Paragraphs(tasks[k].doc)))
  /\ tasks' = [tasks EXCEPT ![k].pc = "adding"]
  /\ UNCHANGED <<searched_docs, pdf_files>> /\ UNCHANGED searchVars
  /\ UNCHANGED ex /\ UNCHANGED userVars

\* _ensure_document_indexed lines 224-227: add_document has returned, the
\* coroutine takes the result and runs on
EnsureReturn(k) ==
  /\ call = NoCall
  /\ tasks[k].pc = "adding"
  /\ tasks' = [tasks EXCEPT ![k] =
                 AfterEnsure(@, IF last_ret.result THEN "added" ELSE "add_failed")]
  /\ last_ret' = NoRet
  /\ UNCHANGED <<cfg, searched_docs, pdf_files>>
  /\ UNCHANGED <<seen_hashes, collection, call, ok_docs, failed_docs, attempted, ncalls,
                 cleared_docs, clear_ret>>
  /\ UNCHANGED splitVars /\ UNCHANGED searchVars
  /\ UNCHANGED ex /\ UNCHANGED userVars

\* lines 288-305 and 327-342: ask_ollama has returned; a response with the
\* sentinel in it is answered by the not-found message, any other response is
\* sent to the user after the "search finished" line; the handler awaits
\* reply_text and reads its result lists no more
OllamaReturns(k, outcomes) ==
  /\ ~Busy
  /\ tasks[k].pc = "replying" /\ tasks[k].asked
  /\ \E outcome \in outcomes :
       LET response == AskOllama(outcome)
       IN tasks' = [tasks EXCEPT ![k] =
                      [@ EXCEPT !.pc = "sending", !.llm = outcome, !.response = response,
                                !.all_results = <<>>, !.visits = <<>>, !.handed = <<>>,
                                !.rest = <<>>, !.files = <<>>,
                                !.reply = IF SaysNotFound(response) THEN "not_found"
                                          ELSE "answer",
                                !.shown = IF SaysNotFound(response) THEN <<>>
                                          ELSE response]]
  /\ UNCHANGED <<cfg, searched_docs, pdf_files>>
  /\ UNCHANGED splitVars /\ UNCHANGED storeVars /\ UNCHANGED searchVars
  /\ UNCHANGED ex /\ UNCHANGED userVars

\* ask_ollama returns, whatever became of the call to the model server
OllamaReturn(k) == OllamaReturns(k, OllamaOutcomes)

\* ask_ollama returns while the model server is up and answers the question
OllamaAnswers(k) ==
  OllamaReturns(k, {[raised |-> FALSE, reply |-> <<Piece("the answer, with a quote.", "mixed")>>]})

\* reply_text has returned and the query handler returns; its locals are gone
QueryReply(k) ==
  /\ ~Busy
  /\ \/ tasks[k].pc = "sending"
     \/ tasks[k].pc = "replying" /\ ~tasks[k].asked
  /\ tasks' = [tasks EXCEPT ![k] = [@ EXCEPT !.pc = "done", !.all_results = <<>>,
                                               !.visits = <<>>, !.handed = <<>>,
                                               !.rest = <<>>, !.files = <<>>,
                                               !.llm = NoOutcome, !.response = <<>>,
                                               !.shown = <<>>,
                                               !.reply = IF @ = "no_info" THEN @ ELSE "none"]]
  /\ UNCHANGED <<cfg, searched_docs, pdf_files>>
  /\ UNCHANGED splitVars /\ UNCHANGED storeVars /\ UNCHANGED searchVars
  /\ UNCHANGED ex /\ UNCHANGED userVars

InitBot ==
  /\ cfg = BotConfig
  /\ InitSplitIdle
  /\ InitStoreIdle
  /\ tasks = <<>> /\ searched_docs = {} /\ pdf_files = BotFiles
  /\ sr = NoSearch /\ read_faults = MaxReadFaults
  /\ InitExtractIdle
  /\ InitUsersIdle

NextBot ==
  \/ \E d \in BotDocs : ButtonPress(d)
  \/ \E d \in BotDocs : MessageSpecific(d, "q1")
  \/ \E k \in 1..Len(tasks) : ButtonSpawn(k)
  \/ \E k \in 1..Len(tasks) : IndexStart(k)
  \/ \E k \in 1..Len(tasks) : SpecificSearch(k)
  \/ \E k \in 1..Len(tasks) : ExtractEmpty(k)
  \/ \E k \in 1..Len(tasks) : ExtractDone(k)
  \/ \E k \in 1..Len(tasks) : EnsureReturn(k)
  \/ \E k \in 1..Len(tasks) : OllamaAnswers(k)
  \/ \E k \in 1..Len(tasks) : QueryReply(k)
  \/ StoreStep

SpecBot == InitBot /\ [][NextBot]_vars

\* five files of one chunk each, listed in another order than their scores
QueryFiles == <<"c.pdf", "b.pdf", "g.pdf", "f.pdf", "h.pdf">>

\* files that give no chunk: one without quality, one without text
NoChunkFiles == <<"d.pdf", "e.pdf">>

\* i.pdf is a copy of b.pdf, a.pdf is longer than one chunk
LongFiles == <<"b.pdf", "i.pdf", "a.pdf", "c.pdf">>

\* what earlier runs of the bot left in the persisted collection: the chunks
\* of all the listed files, or of all but one
QueryIndexes ==
  LET files == {QueryFiles[k] : k \in 1..Len(QueryFiles)}
  IN {UNION {ExpectedRecords(d) : d \in files \ missing} : missing \in {{}, {"f.pdf"}, {"b.pdf"}}}

\* the bot is started on a collection that holds chunks already
InitQuery ==
  /\ cfg = BotConfig
  /\ InitSplitIdle
  /\ seen_hashes = {} /\ call = NoCall /\ last_ret = NoRet
  /\ ok_docs = {} /\ failed_docs = {} /\ attempted = {} /\ ncalls = 0
  /\ cleared_docs = {} /\ clear_ret = "none"
  /\ collection \in QueryIndexes
  /\ tasks = <<>> /\ searched_docs = {} /\ pdf_files \in {QueryFiles, BotFiles, NoChunkFiles, LongFiles}
  /\ sr = NoSearch /\ read_faults = MaxReadFaults
  /\ InitExtractIdle
  /\ InitUsersIdle

\* text messages only, at most MaxQueries of them, with the model server up
NextQuery ==
  \/ Len(tasks) < MaxQueries /\ \E q \in Queries : MessageGlobal(q)
  \/ Len(tasks) < MaxQueries /\ \E d \in BotDocs : MessageSpecific(d, "q2")
  \/ \E k \in 1..Len(tasks) : GlobalVisit(k)
  \/ \E k \in 1..Len(tasks) : GlobalSearch(k)
  \/ \E k \in 1..Len(tasks) : GlobalRank(k)
  \/ \E k \in 1..Len(tasks) : SpecificSearch(k)
  \/ \E k \in 1..Len(tasks) : ExtractEmpty(k)
  \/ \E k \in 1..Len(tasks) : ExtractDone(k)
  \/ \E k \in 1..Len(tasks) : EnsureReturn(k)
  \/ \E k \in 1..Len(tasks) : OllamaAnswers(k)
  \/ \E k \in 1..Len(tasks) : QueryReply(k)
  \/ StoreStep

SpecQuery == InitQuery /\ [][NextQuery]_vars

\* the three chunks that a run of the bot with CHUNK_OVERLAP=0 stored of a.pdf
LongRecords ==
  LET cs == SplitTextIntoChunks(SearchConfig, TextOf("a.pdf")).chunks
  IN {BatchEntry("a.pdf", k - 1, cs[k]) : k \in {j \in 1..Len(cs) : PassesQualityCheck(cs[j])}}

\* the chunks of the five one-chunk files, without or with those of a.pdf
AnswerIndexes ==
  LET short == UNION {ExpectedRecords(QueryFiles[k]) : k \in 1..Len(QueryFiles)}
  IN {short, short \cup LongRecords}

\* the bot is started with b.pdf and c.pdf indexed and lists them with files
\* that are not: two that give no chunk, or a copy of b.pdf and the long a.pdf
InitAnswer ==
  /\ cfg = BotConfig
  /\ InitSplitIdle
  /\ seen_hashes = {} /\ call = NoCall /\ last_ret = NoRet
  /\ ok_docs = {} /\ failed_docs = {} /\ attempted = {} /\ ncalls = 0
  /\ cleared_docs = {} /\ clear_ret = "none"
  /\ collection \in AnswerIndexes
  /\ tasks = <<>> /\ searched_docs = {} /\ pdf_files \in {BotFiles, LongFiles}
  /\ sr = NoSearch /\ read_faults = MaxReadFaults
  /\ InitExtractIdle
  /\ InitUsersIdle

\* text messages, at most MaxQueries of them, while the model server answers,
\* answers with a not-found phrasing, or cannot be reached
NextAnswer ==
  \/ Len(tasks) < MaxQueries /\ \E q \in Queries : MessageGlobal(q)
  \/ Len(tasks) < MaxQueries /\ \E d \in BotDocs : MessageSpecific(d, "q2")
  \/ \E k \in 1..Len(tasks) : GlobalVisit(k)
  \/ \E k \in 1..Len(tasks) : GlobalSearch(k)
  \/ \E k \in 1..Len(tasks) : GlobalRank(k)
  \/ \E k \in 1..Len(tasks) : SpecificSearch(k)
  \/ \E k \in 1..Len(tasks) : ExtractEmpty(k)
  \/ \E k \in 1..Len(tasks) : ExtractDone(k)
  \/ \E k \in 1..Len(tasks) : EnsureReturn(k)
  \/ \E k \in 1..Len(tasks) : OllamaReturn(k)
  \/ \E k \in 1..Len(tasks) : QueryReply(k)
  \/ StoreStep

SpecAnswer == InitAnswer /\ [][NextAnswer]_vars

\* an indexing pass is in flight: extraction or add_document is under way
InFlight(t) == t.pc \in {"extracting", "adding"}

\* C4: a scoped query on a document without chunks runs exactly one indexing
\* pass before its search, and a query that comes after another query has
\* searched the same document runs none.
C4_OneIndexingPass ==
  \A k \in 1..Len(tasks) :
    (tasks[k].kind = "specific" /\ tasks[k].searched) =>
      /\ tasks[k].unindexed => tasks[k].passes = 1
      /\ tasks[k].later => tasks[k].passes = 0

\* C5: at most one indexing pass for a given document is in flight at any time.
C5_OnePassPerDocument ==
  \A j, k \in 1..Len(tasks) :
    (j # k /\ InFlight(tasks[j]) /\ InFlight(tasks[k])) => tasks[j].doc # tasks[k].doc

\* the background indexing task i is at a waiting point: the extraction
\* (pages and OCR) or the backoff wait between failed write attempts
IndexWaiting(i) ==
  /\ tasks[i].kind = "index"
  /\ \/ tasks[i].pc = "extracting" /\ call = NoCall
     \/ tasks[i].pc = "adding" /\ call # NoCall /\ call.pc = "sleep"

\* the next step of a query handler that waits for ask_ollama or reply_text
HandlerResumes(j) == OllamaReturn(j) \/ QueryReply(j)

\* handler j of a query on another, indexed document waits to be resumed
PendingQuery(j, i) ==
  /\ tasks[j].kind = "specific" /\ tasks[j].pc \in {"replying", "sending"}
  /\ tasks[j].doc # tasks[i].doc
  /\ HasDocument(tasks[j].doc)

\* C11: a background indexing task never blocks queries on other, indexed
\* documents: at each of its waiting points (extraction, OCR, the backoff wait
\* between failed write attempts of a batch) a pending query handler for
\* another document is able to run before the indexing task resumes.
C11_IndexingNeverBlocksQueries ==
  \A i, j \in 1..Len(tasks) :
    (IndexWaiting(i) /\ PendingQuery(j, i)) => ENABLED HandlerResumes(j)

\* --------------------------------------------------------------- extractor
MaxPages == 2          \* pages of the document given to the extractor

\* a page text: the page it belongs to, its words, and whether whitespace
\* stands around them
PageText(p, ws, pad) == [page |-> p, ws |-> ws, pad |-> pad]

\* ""
EmptyText == PageText(0, <<>>, FALSE)

\* whitespace only: a line feed or a form feed
BlankText == PageText(0, <<>>, TRUE)

\* what page.extract_text() can give for page p: nothing, whitespace, a few
\* words, a full page
NativeTexts(p) ==
  {EmptyText, BlankText,
   PageText(p, Rep("information", 5), TRUE), PageText(p, Rep("information", 20), TRUE)}

\* what pytesseract.image_to_string can give for page p: a few words, a full
\* page
OcrTexts(p) ==
  {PageText(p, Rep("documentation", 5), TRUE), PageText(p, Rep("documentation", 20), TRUE)}

\* one image_to_string call: it raises, or gives a text
OcrReads(p) ==
  {[raised |-> TRUE, text |-> EmptyText]} \cup {[raised |-> FALSE, text |-> t] : t \in OcrTexts(p)}

\* bool(text)
Truthy(t) == t.ws # <<>> \/ t.pad

\* text.strip()
Strip(t) == [t EXCEPT !.pad = FALSE, !.page = IF t.ws = <<>> THEN 0 ELSE @]

\* characters of a word that [^A-Za-z0-9...] leaves
WordAlnum(w) == IF w = "2024-11-03" THEN 8 ELSE WordLen(w)

RECURSIVE SumAlnum(_)
SumAlnum(ws) == IF ws = <<>> THEN 0 ELSE WordAlnum(Head(ws)) + SumAlnum(Tail(ws))

\* len(re.sub(r'\s+', '', text))
CleanedLen(t) == SumLen(t.ws)

\* self.min_text_length
min_text_length == 120

\* the word count _is_text_sufficient asks for
min_text_words == 20

IsTextSufficientNonEmpty(t) == Truthy(t)

\* _is_text_sufficient(text)
IsTextSufficient(t) ==
  /\ Truthy(t)
  /\ ~(CleanedLen(t) < min_text_length)
  /\ ~(2 * SumAlnum(t.ws) < min_text_length)
  /\ ~(Len(t.ws) < min_text_words)

\* _evaluate_ocr_quality(text), in millionths
EvaluateOcrQualityOf(t) ==
  IF ~Truthy(t) \/ CleanedLen(t) = 0 THEN 0
  ELSE LET c == CleanedLen(t)
           w == Len(t.ws)
       IN Min((400000 * SumAlnum(t.ws)) \div c + 3000 * Min(w, 100)
                + (300000 * Min(c, 8 * w)) \div (8 * w),
              1000000)

\* the quality of each text a read can give
EvaluateOcrQuality ==
  [t \in {EmptyText} \cup UNION {OcrTexts(p) : p \in 1..(MaxPages + 1)} |-> EvaluateOcrQualityOf(t)]

\* self.default_dpi, self.fallback_dpi
dpis == <<200, 300>>

\* self.psm_modes
psm_modes == <<6, 3, 8>>

NoBest == [text |-> EmptyText, quality |-> 0]

DiscardOnFailure(best, r, q) ==
  IF r.raised THEN NoBest
  ELSE IF q > best.quality THEN [text |-> r.text, quality |-> q] ELSE best

\* lines 135-141: a read that raised changes nothing; a read of strictly
\* higher quality replaces the best text
BetterRead(best, r, q) ==
  IF ~r.raised /\ q > best.quality THEN [text |-> r.text, quality |-> q] ELSE best

\* lines 126-141: the reads of one image in each PSM mode; a read replaces
\* the best text when its quality is strictly higher
RECURSIVE BestOfReads(_, _)
BestOfReads(best, reads) ==
  IF reads = <<>> THEN best
  ELSE LET r == Head(reads)
           q == EvaluateOcrQuality[r.text]
       IN BestOfReads(BetterRead(best, r, q), Tail(reads))

\* lines 78-83: what _process_page_async returns after OCR
PageResult(native, ocr) ==
  IF IsTextSufficient(ocr) THEN ocr
  ELSE IF Truthy(native) THEN native ELSE ocr

GatherInCompletionOrder(pages, finished) ==
  [k \in 1..Len(finished) |-> pages[finished[k]].ret]

\* asyncio.gather(*tasks): the results in the order of the tasks given
GatherResults(pages, finished) == [p \in 1..Len(pages) |-> pages[p].ret]

\* lines 51-57: the stripped results that are not empty, in list order
RECURSIVE NonEmptyStripped(_)
NonEmptyStripped(page_texts) ==
  IF page_texts = <<>> THEN <<>>
  ELSE LET result == Head(page_texts)
       IN (IF Truthy(result) /\ Strip(result).ws # <<>> THEN <<Strip(result)>> ELSE <<>>)
            \o NonEmptyStripped(Tail(page_texts))

OpenErrorEscapes == FALSE

\* except Exception (line 62): an error of open or PdfReader is caught
OpenErrorCaught == TRUE

NewPage ==
  [pc |-> "new", native |-> EmptyText, native_raised |-> FALSE, dpi |-> 1,
   best |-> NoBest, passes |-> 0, ret |-> EmptyText]

otherVars == <<cfg, words, chunks, start, end, split_pc,
               seen_hashes, collection, call, last_ret, ok_docs, failed_docs, attempted, ncalls,
               cleared_docs, clear_ret, sr, read_faults, pdf_files, tasks, searched_docs,
               disk, bot_data, user_selected_doc, keyboards, callbacks, routed, updates>>

\* lines 39-42, 62-64: the file cannot be opened or read; [] is returned
ExtractOpenFail ==
  /\ ex.pc = "entry"
  /\ ex' = IF OpenErrorCaught
             THEN [ex EXCEPT !.pc = "returned", !.unreadable = TRUE, !.out = <<>>]
             ELSE [ex EXCEPT !.pc = "returned", !.unreadable = TRUE, !.raised = TRUE]
  /\ UNCHANGED otherVars

\* lines 39-49: the file has n pages; one task per page is given to gather
ExtractOpenOk(n) ==
  /\ ex.pc = "entry"
  /\ ex' = [ex EXCEPT !.pc = "gather", !.pages = [p \in 1..n |-> NewPage]]
  /\ UNCHANGED otherVars

\* the page has its result: the task is done
PageDone(p, page, ret) ==
  ex' = [ex EXCEPT !.pages[p] = [page EXCEPT !.pc = "done", !.ret = ret],
                   !.finished = Append(@, p)]

\* lines 69-76, 89-98: the task of page p starts, after the tasks of the pages
\* before it; the native text is read without a wait, and a sufficient one is
\* returned at once
PageStart(p) ==
  /\ ex.pc = "gather"
  /\ ex.pages[p].pc = "new"
  /\ \A o \in 1..(p - 1) : ex.pages[o].pc # "new"
  /\ \E raised \in BOOLEAN, text \in NativeTexts(p) :
       LET native == IF raised THEN EmptyText ELSE text
           page == [ex.pages[p] EXCEPT !.native = native, !.native_raised = raised]
       IN /\ raised => text = EmptyText
          /\ IF IsTextSufficient(native)
               THEN PageDone(p, page, native)
               ELSE ex' = [ex EXCEPT !.pages[p] = [page EXCEPT !.pc = "ocr"]]
  /\ UNCHANGED otherVars

\* lines 107-144 and 78-83: one pass of the DPI loop for page p, run in worker
\* threads while other page tasks go on: the page is rendered at the next DPI
\* and, when that gave an image, read in each PSM mode; after the last DPI the
\* task returns
PageOcrPass(p) ==
  /\ ex.pc = "gather"
  /\ ex.pages[p].pc = "ocr"
  /\ \E rendered \in BOOLEAN, reads \in [1..Len(psm_modes) -> OcrReads(p)] :
       LET old == ex.pages[p]
           page == [old EXCEPT
                      !.best = IF rendered THEN BestOfReads(@, reads) ELSE @,
                      !.passes = @ + 1, !.dpi = @ + 1]
       IN /\ ~rendered => \A k \in 1..Len(reads) : reads[k].raised
          /\ IF old.dpi = Len(dpis)
               THEN PageDone(p, page, PageResult(page.native, page.best.text))
               ELSE ex' = [ex EXCEPT !.pages[p] = page]
  /\ UNCHANGED otherVars

\* lines 49-60: every page task is done; gather hands the results back and the
\* non-empty ones are returned, stripped
ExtractReturn ==
  /\ ex.pc = "gather"
  /\ \A p \in 1..Len(ex.pages) : ex.pages[p].pc = "done"
  /\ ex' = [ex EXCEPT !.pc = "returned",
                      !.out = NonEmptyStripped(GatherResults(ex.pages, ex.finished))]
  /\ UNCHANGED otherVars

InitExtract ==
  /\ cfg = BotConfig
  /\ InitSplitIdle
  /\ InitStoreIdle
  /\ InitBotIdle
  /\ InitSearchIdle
  /\ InitUsersIdle
  /\ ex = [pc |-> "entry", unreadable |-> FALSE, pages |-> <<>>, finished |-> <<>>,
           out |-> <<>>, raised |-> FALSE]

NextExtract ==
  \/ ExtractOpenFail
  \/ \E n \in 0..MaxPages : ExtractOpenOk(n)
  \/ \E p \in 1..Len(ex.pages) : PageStart(p)
  \/ \E p \in 1..Len(ex.pages) : PageOcrPass(p)
  \/ ExtractReturn

SpecExtract == InitExtract /\ [][NextExtract]_vars

\* what one image_to_string call of a single _extract_text_ocr call can give:
\* it raises, or returns whitespace, a few words, or a full page
OcrCallReads(p) ==
  OcrReads(p) \cup {[raised |-> FALSE, text |-> BlankText]}

\* ex.best at the next DPI, or the return of _extract_text_ocr after the last
OcrNextDpi(c) ==
  IF c.dpi = Len(dpis)
    THEN [c EXCEPT !.pc = "returned", !.ret = c.best.text]
    ELSE [c EXCEPT !.pc = "render", !.dpi = @ + 1, !.psm = 1]

\* lines 107-123: the page is rendered at the DPI of this pass, in a worker
\* thread; when that raises or gives no image the pass is skipped
OcrRender ==
  /\ ex.pc = "render"
  /\ \E rendered \in BOOLEAN :
       ex' = IF rendered THEN [ex EXCEPT !.pc = "read", !.psm = 1]
             ELSE OcrNextDpi([ex EXCEPT !.ocr_failed = TRUE])
  /\ UNCHANGED otherVars

\* lines 126-144: the image is read in the next PSM mode, in a worker thread;
\* after the last mode the next pass begins or best_text is returned
OcrRead ==
  /\ ex.pc = "read"
  /\ \E r \in OcrCallReads(ex.page) :
       LET c == [ex EXCEPT !.best = BetterRead(@, r, EvaluateOcrQualityOf(r.text)),
                           !.completed = IF r.raised THEN @ ELSE @ \cup {r.text},
                           !.ocr_failed = @ \/ r.raised]
       IN ex' = IF ex.psm = Len(psm_modes) THEN OcrNextDpi(c)
                ELSE [c EXCEPT !.psm = @ + 1]
  /\ UNCHANGED otherVars

\* _extract_text_ocr(pdf_path, page_num) is called for one page; completed and
\* ocr_failed note what its reads give: the texts of the reads that returned,
\* and whether a render or a read failed
InitOcr ==
  /\ cfg = BotConfig
  /\ InitSplitIdle
  /\ InitStoreIdle
  /\ InitBotIdle
  /\ InitSearchIdle
  /\ InitUsersIdle
  /\ \E p \in 1..MaxPages :
       ex = [pc |-> "render", page |-> p, dpi |-> 1, psm |-> 1, best |-> NoBest,
             completed |-> {}, ocr_failed |-> FALSE, ret |-> EmptyText]

NextOcr ==
  \/ OcrRender
  \/ OcrRead

SpecOcr == InitOcr /\ [][NextOcr]_vars

\* ------------------------------------------------------------------ users
MaxCallbacks == 1      \* button presses in flight at once
MaxUpdates == 5        \* commands, button presses and text messages in one behaviour

\* the names os.listdir can give, in directory order
DirOrder == <<"a.pdf", "b.pdf", "c.PDF">>

PdfNames == {"a.pdf", "b.pdf", "c.PDF"}

\* f.endswith('.pdf')
EndsWithPdf(f) == f \in {"a.pdf", "b.pdf"}

\* f.lower().endswith('.pdf')
LowerEndsWithPdf(f) == f \in {"a.pdf", "b.pdf", "c.PDF"}

\* os.listdir, filtered by a test on the name
ListDir(Test(_)) == SelectSeq(DirOrder, LAMBDA f : f \in disk /\ Test(f))

\* get_pdf_files(), lines 91-92
get_pdf_files == ListDir(LowerEndsWithPdf)

\* [f for f in os.listdir('.') if f.endswith('.pdf')], lines 111, 144, 202
ListedPdfs == ListDir(EndsWithPdf)

\* str(user_id)
Str(user_id) == ToString(user_id)

NoSelection == "none"

\* user_selected_doc.get(str(user_id))
SelectedOf(state, user_id) ==
  IF Str(user_id) \in DOMAIN state THEN state[Str(user_id)] ELSE NoSelection

\* user_selected_doc[str(user_id)] = selected_document
WithSelection(state, user_id, d) ==
  [k \in DOMAIN state \cup {Str(user_id)} |-> IF k = Str(user_id) THEN d ELSE state[k]]

\* user_selected_doc.pop(str(user_id), None)
WithoutSelection(state, user_id) ==
  [k \in DOMAIN state \ {Str(user_id)} |-> state[k]]

\* the keyboard with a doc_<i> button for each file of the list, labelled
\* with the file
Keyboard(files) == [sent |-> TRUE, labels |-> files]

\* the callback_data of the buttons of a keyboard
ButtonsOf(kb) ==
  IF ~kb.sent THEN {}
  ELSE {[data |-> "global_search", index |-> 0, label |-> "Alle Dokumente durchsuchen"],
        [data |-> "separator", index |-> 0, label |-> "Dokument auswaehlen:"]}
       \cup {[data |-> "doc", index |-> i - 1, label |-> kb.labels[i]] :
               i \in 1..Len(kb.labels)}

\* a PDF is put into the working directory
DiskAdd ==
  /\ \E f \in PdfNames \ disk : disk' = disk \cup {f}
  /\ UNCHANGED <<bot_data, user_selected_doc, keyboards, callbacks, routed, updates>>
  /\ UNCHANGED cfg /\ UNCHANGED splitVars /\ UNCHANGED storeVars /\ UNCHANGED searchVars
  /\ UNCHANGED botVars /\ UNCHANGED ex

\* a PDF is taken out of the working directory
DiskRemove ==
  /\ \E f \in PdfNames \cap disk : disk' = disk \ {f}
  /\ UNCHANGED <<bot_data, user_selected_doc, keyboards, callbacks, routed, updates>>
  /\ UNCHANGED cfg /\ UNCHANGED splitVars /\ UNCHANGED storeVars /\ UNCHANGED searchVars
  /\ UNCHANGED botVars /\ UNCHANGED ex

\* start_command, lines 109-129: the global list is bound to a new listing,
\* bot_data gets a copy, and the keyboard of the listing is sent
StartCommand(u) ==
  /\ updates < MaxUpdates /\ updates' = updates + 1
  /\ pdf_files' = ListedPdfs
  /\ bot_data' = ListedPdfs
  /\ keyboards' = IF ListedPdfs = <<>> THEN keyboards
                  ELSE [keyboards EXCEPT ![u] = Keyboard(ListedPdfs)]
  /\ UNCHANGED <<disk, user_selected_doc, callbacks, routed>>
  /\ UNCHANGED <<tasks, searched_docs>>
  /\ UNCHANGED cfg /\ UNCHANGED splitVars /\ UNCHANGED storeVars /\ UNCHANGED searchVars
  /\ UNCHANGED ex

\* button_callback lines 131-136: user u presses a button of the keyboard
\* they hold; the handler awaits query.answer()
ButtonPressed(u) ==
  /\ updates < MaxUpdates /\ updates' = updates + 1
  /\ Cardinality(callbacks) < MaxCallbacks
  /\ \E b \in ButtonsOf(keyboards[u]) :
       callbacks' = callbacks \cup
                      {[user |-> u, data |-> b.data, index |-> b.index, label |-> b.label,
                        pc |-> "answer"]}
  /\ UNCHANGED <<disk, bot_data, user_selected_doc, keyboards, routed>>
  /\ UNCHANGED cfg /\ UNCHANGED splitVars /\ UNCHANGED storeVars /\ UNCHANGED searchVars
  /\ UNCHANGED botVars /\ UNCHANGED ex

\* lines 138-144: an empty global list is replaced by the cached copy, or by
\* a new listing
ListForCallback ==
  IF pdf_files # <<>> THEN pdf_files
  ELSE IF bot_data # <<>> THEN bot_data ELSE ListedPdfs

\* selected_document = pdf_files[doc_index], line 170
FileOfButton(c, files) == files[c.index + 1]

\* button_callback lines 137-205, from query.answer() to the next await
CallbackAnswered(c) ==
  /\ c \in callbacks /\ c.pc = "answer"
  /\ LET files == ListForCallback
         valid == c.index < Len(files)
         d == FileOfButton(c, files)
     IN CASE c.data = "global_search" ->
               /\ user_selected_doc' = WithoutSelection(user_selected_doc, c.user)
               /\ UNCHANGED disk
               /\ pdf_files' = files
               /\ callbacks' = (callbacks \ {c}) \cup {[c EXCEPT !.pc = "edit"]}
               /\ UNCHANGED bot_data
          [] c.data = "separator" ->
               /\ pdf_files' = files
               /\ callbacks' = callbacks \ {c}
               /\ UNCHANGED <<user_selected_doc, disk, bot_data>>
          [] c.data = "doc" /\ valid ->
               /\ user_selected_doc' = WithSelection(user_selected_doc, c.user, d)
               /\ UNCHANGED disk
               /\ pdf_files' = files
               /\ callbacks' = (callbacks \ {c}) \cup {[c EXCEPT !.pc = "edit"]}
               /\ UNCHANGED bot_data
          [] c.data = "doc" /\ ~valid ->
               /\ pdf_files' = ListedPdfs
               /\ bot_data' = ListedPdfs
               /\ callbacks' = callbacks \ {c}
               /\ UNCHANGED <<user_selected_doc, disk>>
  /\ UNCHANGED <<keyboards, routed, updates>>
  /\ UNCHANGED <<tasks, searched_docs>>
  /\ UNCHANGED cfg /\ UNCHANGED splitVars /\ UNCHANGED storeVars /\ UNCHANGED searchVars
  /\ UNCHANGED ex

\* lines 156-162 and 189-198: after edit_message_text the keyboard is built
\* from the global list as it is now, and sent
CallbackEdited(c) ==
  /\ c \in callbacks /\ c.pc = "edit"
  /\ keyboards' = [keyboards EXCEPT ![c.user] = Keyboard(pdf_files)]
  /\ callbacks' = callbacks \ {c}
  /\ UNCHANGED <<disk, bot_data, user_selected_doc, routed, updates>>
  /\ UNCHANGED cfg /\ UNCHANGED splitVars /\ UNCHANGED storeVars /\ UNCHANGED searchVars
  /\ UNCHANGED botVars /\ UNCHANGED ex

\* pdf_files.extend(get_pdf_files()) when the list is empty, lines 250-251
ListForGlobalSearch ==
  IF pdf_files = <<>> THEN pdf_files \o get_pdf_files ELSE pdf_files

\* handle_message lines 231-241 and _handle_global_search lines 246-252: the
\* message of user u goes to the scoped search of their selection, or to the
\* global search over the list; the search itself is followed from
\* MessageSpecific and MessageGlobal on
TextMessage(u) ==
  LET selected == SelectedOf(user_selected_doc, u)
  IN /\ updates < MaxUpdates /\ updates' = updates + 1
     /\ IF selected # NoSelection
          THEN /\ routed' = [user |-> u, kind |-> "specific", doc |-> selected]
               /\ UNCHANGED pdf_files
          ELSE /\ routed' = [user |-> u, kind |-> "global", doc |-> NoSelection]
               /\ pdf_files' = ListForGlobalSearch
     /\ UNCHANGED <<disk, bot_data, user_selected_doc, keyboards, callbacks>>
     /\ UNCHANGED <<tasks, searched_docs>>
     /\ UNCHANGED cfg /\ UNCHANGED splitVars /\ UNCHANGED storeVars /\ UNCHANGED searchVars
     /\ UNCHANGED ex

InitUsers ==
  /\ cfg = BotConfig
  /\ InitSplitIdle
  /\ InitStoreIdle
  /\ InitBotIdle
  /\ InitSearchIdle
  /\ InitExtractIdle
  /\ disk \in SUBSET PdfNames
  /\ bot_data = <<>> /\ user_selected_doc = <<>>
  /\ keyboards = [u \in User_ids |-> NoKeyboard]
  /\ callbacks = {} /\ routed = NoMessage /\ updates = 0

NextUsers ==
  \/ DiskAdd
  \/ DiskRemove
  \/ \E u \in User_ids : StartCommand(u)
  \/ \E u \in User_ids : ButtonPressed(u)
  \/ \E c \in callbacks : CallbackAnswered(c)
  \/ \E c \in callbacks : CallbackEdited(c)
  \/ \E u \in User_ids : TextMessage(u)

SpecUsers == InitUsers /\ [][NextUsers]_vars

\* ----------------------------------------------------- claims on the store
Returned == last_ret # NoRet

InFlush(x) == x.flush_ret # "none"

Count(log, e) == Cardinality({k \in 1..Len(log) : log[k].ev = e})

IsReconnect(e) == e.ev \in {"reconnect_ok", "reconnect_fail"}

SharesContent(d1, d2) == PassingChunks(d1) \cap PassingChunks(d2) # {}

\* C2: between calls every hash in seen_hashes is the hash of a chunk that
\* was written to the backend.
C2_SeenOnlyPersisted ==
  call = NoCall => \A h \in seen_hashes : \E r \in collection : r.chunk_hash = h

\* C3: add_document is at-least-once: once a call for a document that failed
\* before returns True, every quality-passing chunk of the document is in the
\* backend.
C3_AtLeastOnce ==
  (Returned /\ call = NoCall /\ last_ret.result /\ last_ret.doc_id \in failed_docs)
    => \A c \in PassingChunks(last_ret.doc_id) : \E r \in collection : r.text = c

\* C6 (as claimed): the records persisted under a doc_id by its first
\* add_document call that returns True are those the call persists on a
\* fresh store, whatever other documents were added before.
C6_NoInterference ==
  (Returned /\ last_ret.first /\ last_ret.result)
    => PersistedUnder(last_ret.doc_id) = ExpectedRecords(last_ret.doc_id)

\* C6 (amended): the same, for documents that share no quality-passing chunk
\* content with the documents added before.
C6_NoInterferenceDistinctContent ==
  (Returned /\ last_ret.first /\ last_ret.result
     /\ \A o \in last_ret.others : ~SharesContent(o, last_ret.doc_id))
    => PersistedUnder(last_ret.doc_id) = ExpectedRecords(last_ret.doc_id)

C6_Witness ==
  /\ Returned /\ last_ret.first /\ last_ret.result
  /\ last_ret.doc_id = "a.pdf" /\ "c.pdf" \in last_ret.others
  /\ PersistedUnder("c.pdf") # {} /\ Cardinality(PersistedUnder("a.pdf")) = 3

\* C7: a second add_document of a document whose earlier add returned True
\* flushes no batch and returns True.
C7_SecondAddSendsNothing ==
  (Returned /\ last_ret.prior_ok) => (last_ret.result /\ last_ret.batches = <<>>)

C7_Witness ==
  /\ Returned /\ last_ret.prior_ok /\ last_ret.doc_id = "a.pdf"
  /\ Cardinality(PersistedUnder("a.pdf")) = 3

\* C8: add_document returns False exactly when a batch flush failed after its
\* retries (or an exception occurred); the failed flush is the last one of the
\* call, every batch flushed before it is still in the backend, and a call
\* that returns True has gone through all chunks.
C8_ReturnValue ==
  Returned =>
    LET b == last_ret.batches
    IN /\ last_ret.result = FALSE
            <=> (\/ \E k \in 1..Len(b) : ~b[k].ok
                 \/ last_ret.flush_ret = "raised")
       /\ \A k \in 1..Len(b) : ~b[k].ok => k = Len(b)
       /\ \A k \in 1..Len(b) : b[k].ok => \A id \in b[k].ids : \E r \in collection : r.id = id
       /\ last_ret.result => last_ret.i = last_ret.nchunks

C8_Witness ==
  /\ Returned /\ ~last_ret.result /\ Len(last_ret.batches) = 2
  /\ last_ret.batches[1].ok /\ ~last_ret.batches[2].ok
  /\ Cardinality(PersistedUnder(last_ret.doc_id)) = 2

\* the events of one _add_batch run obey C9
FlushObeysRetryLimit(x) ==
  LET log == x.flush_log
  IN /\ Count(log, "add_ok") + Count(log, "add_fail") <= 3
     /\ Count(log, "add_ok") > 0 => (log[Len(log)].ev = "add_ok" /\ Count(log, "add_ok") = 1)
     /\ x.flush_ret = "true" <=> Count(log, "add_ok") = 1
     /\ x.flush_ret = "false" => Count(log, "add_fail") = 3
     /\ x.flush_ret # "raised"

\* C9: a batch flush makes at most 3 write attempts, returns True at the
\* first successful attempt, returns False only after 3 failed attempts and
\* never raises.
C9_AtMostThreeAttempts ==
  /\ (call # NoCall /\ InFlush(call)) => FlushObeysRetryLimit(call)
  /\ (Returned /\ InFlush(last_ret)) => FlushObeysRetryLimit(last_ret)

C9_Witness ==
  /\ Returned /\ last_ret.flush_ret = "true"
  /\ Count(last_ret.flush_log, "add_fail") = 2
  /\ Count(last_ret.flush_log, "reconnect_fail") = 1

\* C10 (as claimed): a flush that fails reconnects after its final failed
\* attempt, before it reports the failure.
C10_ReconnectAfterFinalFailure ==
  (Returned /\ last_ret.flush_ret = "false")
    => IsReconnect(last_ret.flush_log[Len(last_ret.flush_log)])

\* C10 (amended): a flush that fails has waited and reconnected after every
\* failed attempt but the final one, and reports the failure right after the
\* final failed attempt without reconnecting again.
C10_ReconnectBetweenAttempts ==
  (Returned /\ last_ret.flush_ret = "false") =>
    LET log == last_ret.flush_log
    IN /\ log[Len(log)].ev = "add_fail"
       /\ \A k \in 1..(Len(log) - 1) :
            log[k].ev = "add_fail" => (log[k + 1].ev = "sleep" /\ IsReconnect(log[k + 2]))
       /\ Count(log, "reconnect_ok") + Count(log, "reconnect_fail") = Count(log, "add_fail") - 1

C10_Witness ==
  /\ Returned /\ last_ret.flush_ret = "false"
  /\ Count(last_ret.flush_log, "reconnect_ok") = 1
  /\ Count(last_ret.flush_log, "reconnect_fail") = 1

\* C19: re-indexing an unchanged document is idempotent at the storage layer
\* also across process restarts, when seen_hashes is empty again: the backend
\* holds at most one chunk per (doc_id, chunk_index), under the id generated
\* from that pair, and a re-add that returns True leaves exactly the
\* document's records under its doc_id, no duplicate and none missing.
C19_ReindexIdempotent ==
  /\ \A r1, r2 \in collection :
       (r1.doc_id = r2.doc_id /\ r1.chunk_index = r2.chunk_index) => r1 = r2
  /\ \A r1, r2 \in collection : r1.id = r2.id => r1 = r2
  /\ \A r \in collection : r.id = GenerateUniqueId(r.doc_id, r.chunk_index)
  /\ (Returned /\ last_ret.readd /\ last_ret.first /\ last_ret.others = {}
        /\ last_ret.result)
       => PersistedUnder(last_ret.doc_id) = ExpectedRecords(last_ret.doc_id)

\* a document whose chunks were all stored by an earlier process is added
\* again after a restart and every batch is sent and accepted again
C19_Witness ==
  /\ Returned /\ last_ret.readd /\ last_ret.first /\ last_ret.others = {}
  /\ last_ret.result /\ last_ret.doc_id = "a.pdf"
  /\ Len(last_ret.batches) = 2
  /\ \A k \in 1..Len(last_ret.batches) : last_ret.batches[k].ok
  /\ Cardinality(PersistedUnder("a.pdf")) = 3

\* C20: after clear_all returns True the backend holds no chunk, has_document
\* is False for every document and seen_hashes is empty; the next
\* add_document of a document that was indexed before the clear sends its
\* chunks again and, when it returns True, all of them are stored.
C20_ClearAllEmpties ==
  /\ clear_ret = "true" =>
       (collection = {} /\ seen_hashes = {} /\ \A d \in Docs : ~HasDocument(d))
  /\ (Returned /\ last_ret.after_clear /\ last_ret.first /\ last_ret.others = {}
        /\ last_ret.result)
       => /\ PersistedUnder(last_ret.doc_id) = ExpectedRecords(last_ret.doc_id)
          /\ PassingChunks(last_ret.doc_id) # {} => last_ret.batches # <<>>

C20_Witness ==
  /\ Returned /\ last_ret.after_clear /\ last_ret.first /\ last_ret.others = {}
  /\ last_ret.result /\ last_ret.doc_id = "a.pdf"
  /\ Cardinality(PersistedUnder("a.pdf")) = 3

\* the thresholds of the quality gate, on a chunk of single-spaced words
MeetsQualityThresholds(text) ==
  /\ CharLen(text) >= 100
  /\ Len(text) >= 10
  /\ 10 * SumAlpha(text) >= 3 * CharLen(text)
  /\ SumLen(text) >= 2 * Len(text)

\* a chunk of 200 well-formed words
WellFormedChunk == Rep("information", 100) \o Rep("documentation", 100)

\* the quality gate lets the chunk of 200 well-formed words pass
WellFormedChunkAccepted == PassesQualityCheck(WellFormedChunk)

\* the chunks add_document has sent or is about to send to the backend
SentChunks ==
  {r.text : r \in collection}
    \cup (IF call = NoCall THEN {} ELSE {call.doc_batch[k].text : k \in 1..Len(call.doc_batch)})

\* C26: every chunk that add_document sends to the backend passes the
\* quality gate (at least 100 characters, at least 10 words, alphabetic ratio
\* at least 0.3, average word length at least 2.0); a chunk of 5 words is
\* never persisted, also when it is longer than 100 characters, and the
\* gate accepts a chunk of 200 well-formed words.
C26_OnlyQualityChunksSent ==
  /\ \A text \in SentChunks : MeetsQualityThresholds(text) /\ Len(text) # 5
  /\ (Returned /\ last_ret.doc_id = "j.pdf") => (last_ret.result /\ last_ret.accepted = {})
  /\ WellFormedChunkAccepted

\* the five long words of j.pdf were given to add_document after chunks of
\* a.pdf were stored, the all-digit chunk of a.pdf left out, and none of the
\* five words was stored
C26_Witness ==
  /\ Returned /\ last_ret.doc_id = "j.pdf" /\ last_ret.result
  /\ CharLen(TextOf("j.pdf")) >= 100
  /\ Cardinality(PersistedUnder("a.pdf")) = 3
  /\ PersistedUnder("j.pdf") = {}

\* the ids of all batches a call has flushed
FlushedIds(x) == UNION {x.batches[k].ids : k \in 1..Len(x.batches)}

\* C30: every batch add_document passes to the backend holds between 1 and
\* batch_size chunks; a batch is flushed as soon as it holds batch_size
\* chunks and is empty afterwards, so between flushes the pending batch holds
\* the accepted chunks not flushed yet, fewer than batch_size; when
\* add_document returns True every accepted chunk was flushed.
C30_BatchesWithinSize ==
  /\ call # NoCall =>
       /\ \A k \in 1..Len(call.batches) :
            /\ Cardinality(call.batches[k].ids) = cfg.batch_size
            /\ \A j \in 1..(k - 1) : call.batches[j].ids \cap call.batches[k].ids = {}
       /\ call.pc = "loop" =>
            /\ Len(call.doc_batch) < cfg.batch_size
            /\ BatchIds(call.doc_batch) = call.accepted \ FlushedIds(call)
            /\ Cardinality(BatchIds(call.doc_batch)) = Len(call.doc_batch)
       /\ call.pc \in {"flush", "sleep", "reconnect"} =>
            /\ Len(call.doc_batch) >= 1 /\ Len(call.doc_batch) <= cfg.batch_size
            /\ ~call.last => Len(call.doc_batch) = cfg.batch_size
  /\ Returned =>
       /\ \A k \in 1..Len(last_ret.batches) :
            /\ Cardinality(last_ret.batches[k].ids) >= 1
            /\ Cardinality(last_ret.batches[k].ids) <= cfg.batch_size
       /\ last_ret.result => FlushedIds(last_ret) = last_ret.accepted

\* three chunks of a.pdf went out as a full batch of two and a remainder of one
C30_Witness ==
  /\ Returned /\ last_ret.result /\ last_ret.doc_id = "a.pdf"
  /\ Len(last_ret.batches) = 2
  /\ Cardinality(last_ret.batches[1].ids) = 2
  /\ Cardinality(last_ret.batches[2].ids) = 1
  /\ Cardinality(last_ret.accepted) = 3

\* the waits of a flush, in seconds, in the order they happen
Waits(log) ==
  LET F[p \in 0..Len(log)] ==
        IF p = 0 THEN <<>>
        ELSE IF log[p].ev = "sleep" THEN Append(F[p - 1], log[p].t) ELSE F[p - 1]
  IN F[Len(log)]

IsPrefix(s, t) == Len(s) <= Len(t) /\ \A k \in 1..Len(s) : s[k] = t[k]

IsAttempt(e) == e.ev \in {"add_ok", "add_fail"}

\* the failed attempts among the first p events
FailsUpTo(log, p) == Cardinality({k \in 1..p : log[k].ev = "add_fail"})

\* the events of one flush stand in the order attempt, wait, reconnect,
\* attempt, ...: a wait directly follows a failed attempt that is not the
\* third, a reconnect follows the wait and an attempt follows the reconnect,
\* failed or not; nothing follows a success or the third failure
WaitsWellPlaced(log) ==
  /\ IsPrefix(Waits(log), <<1, 2>>)
  /\ log # <<>> => IsAttempt(log[1])
  /\ \A p \in 1..Len(log) :
       /\ log[p].ev = "sleep" =>
            p > 1 /\ log[p - 1].ev = "add_fail" /\ FailsUpTo(log, p) < 3
       /\ (log[p].ev = "add_fail" /\ FailsUpTo(log, p) < 3 /\ p < Len(log)) =>
            log[p + 1].ev = "sleep"
       /\ (log[p].ev = "sleep" /\ p < Len(log)) => IsReconnect(log[p + 1])
       /\ (IsReconnect(log[p]) /\ p < Len(log)) => IsAttempt(log[p + 1])
       /\ IsReconnect(log[p]) => log[p - 1].ev = "sleep"
       /\ (log[p].ev = "add_ok" \/ (log[p].ev = "add_fail" /\ FailsUpTo(log, p) = 3)) =>
            p = Len(log)

\* C31: within one batch flush the waits are 1s, then 2s; a wait happens only
\* after a failed attempt that is not the last, the reconnect and the next
\* attempt follow it, nothing follows the last failed attempt or a success,
\* and after a failed reconnect the next attempt is still made.
C31_BackoffDoublesBetweenAttempts ==
  /\ (call # NoCall /\ InFlush(call)) =>
       /\ WaitsWellPlaced(call.flush_log)
       /\ call.pc = "sleep" =>
            call.flush_log[Len(call.flush_log)].ev = "add_fail"
       /\ call.pc = "reconnect" =>
            call.flush_log[Len(call.flush_log)].ev = "sleep"
       /\ (call.flush_log # <<>> /\ IsReconnect(call.flush_log[Len(call.flush_log)])) =>
            (call.pc = "flush" /\ call.flush_ret = "running")
  /\ (last_ret # NoRet /\ InFlush(last_ret)) =>
       /\ WaitsWellPlaced(last_ret.flush_log)
       /\ LET log == last_ret.flush_log
          IN /\ last_ret.flush_ret = "true" => log[Len(log)].ev = "add_ok"
             /\ last_ret.flush_ret = "false" =>
                  (log[Len(log)].ev = "add_fail" /\ Waits(log) = <<1, 2>>)

\* a flush waited 1s and 2s, its first reconnect failed, and its third attempt
\* was made and failed
C31_Witness ==
  /\ last_ret # NoRet /\ last_ret.flush_ret = "false"
  /\ Waits(last_ret.flush_log) = <<1, 2>>
  /\ Len(last_ret.flush_log) = 7
  /\ last_ret.flush_log[3].ev = "reconnect_fail"

\* ---------------------------------------------------- claims on the search
ContextOps == {"get_combined_context", "get_combined_context_for_document"}

DocumentOps == {"search_in_document", "get_combined_context_for_document"}

\* the result list a search call handed back
ResultsOf(x) ==
  IF x.op \in ContextOps THEN x.ret.chunks_info
  ELSE IF x.op = "has_document" THEN <<>> ELSE x.ret

ScoreOf(c) == SimilarityScore(c.distance)

\* the positions of the backend candidates whose score reaches the threshold
Qualifying(x) ==
  {k \in 1..Len(x.cands) : ScoreGeq(ScoreOf(x.cands[k]), ThresholdScore(x.threshold))}

\* what the same call returns when the backend answers and nothing qualifies
NothingQualifiesReturn(x) ==
  LET found == SearchReturn([raised |-> FALSE, cands |-> <<>>], x.n_results, x.threshold)
  IN IF x.op \in ContextOps THEN CombinedContext(found) ELSE found

\* C15: a search that hit a backend error is distinguishable from one that
\* found nothing: when the backend raised during the read, search,
\* search_in_document and get_combined_context(_for_document) return something
\* else than they return when the backend answers and no chunk qualifies.
C15_ErrorDistinctFromNoResult ==
  (sr # NoSearch /\ sr.op # "has_document" /\ sr.raised)
    => sr.ret # NothingQualifiesReturn(sr)

\* C16: search and search_in_document never return a result whose
\* similarity_score is below the threshold t they were called with.
C16_NoResultBelowThreshold ==
  sr # NoSearch =>
    \A k \in 1..Len(ResultsOf(sr)) :
      ScoreGeq(ResultsOf(sr)[k].similarity_score, ThresholdScore(sr.threshold))

\* the backend offered a candidate below the threshold next to one above it
C16_Witness ==
  /\ sr # NoSearch /\ sr.op \in {"search", "search_in_document"}
  /\ Len(sr.ret) >= 1
  /\ Qualifying(sr) # 1..Len(sr.cands)

\* C17: search(query, n, t) returns at most n results in non-increasing score
\* order, and they are exactly the n best-scoring of the (up to 2n) backend
\* candidates whose score is at least t: each result is one of those
\* candidates, min(n, number of them) are returned, and no candidate left out
\* scores above a returned one.
C17_BestNOfCandidates ==
  (sr # NoSearch /\ sr.op = "search") =>
    LET ret == sr.ret
        Q == Qualifying(sr)
    IN /\ Len(ret) <= sr.n_results
       /\ Len(sr.cands) <= 2 * sr.n_results
       /\ \A k \in 1..(Len(ret) - 1) :
            ScoreGeq(ret[k].similarity_score, ret[k + 1].similarity_score)
       /\ Len(ret) = Min(sr.n_results, Cardinality(Q))
       /\ \E f \in [1..Len(ret) -> Q] :
            /\ \A i, j \in 1..Len(ret) : i # j => f[i] # f[j]
            /\ \A k \in 1..Len(ret) : ret[k] = ResultOf(sr.cands[f[k]])
            /\ \A q \in Q \ {f[k] : k \in 1..Len(ret)} :
                 \A k \in 1..Len(ret) :
                   ScoreGeq(ret[k].similarity_score, ScoreOf(sr.cands[q]))

\* more candidates qualify than n, and one does not qualify
C17_Witness ==
  /\ sr # NoSearch /\ sr.op = "search" /\ sr.n_results = 2
  /\ Len(sr.cands) = 4
  /\ Cardinality(Qualifying(sr)) = 3
  /\ Len(sr.ret) = 2

\* C18: every result of search_in_document(query, d) and of
\* get_combined_context_for_document(query, d) is a chunk whose doc_id is d,
\* whatever the index holds.
C18_ResultsOfDocumentOnly ==
  (sr # NoSearch /\ sr.op \in DocumentOps) =>
    \A k \in 1..Len(ResultsOf(sr)) : ResultsOf(sr)[k].doc_id = sr.doc_id

\* the index holds a nearer chunk of another document
C18_Witness ==
  /\ sr # NoSearch /\ sr.op \in DocumentOps
  /\ Len(ResultsOf(sr)) >= 1
  /\ \E r \in collection :
       /\ r.doc_id # sr.doc_id
       /\ Distance(sr.query, r.text) < sr.cands[1].distance

\* a step in which search, search_in_document or has_document returned
ReadReturned ==
  /\ sr' # sr \/ read_faults' # read_faults
  /\ sr'.op \in {"search", "search_in_document", "has_document"}

\* C35: a backend error during a read never propagates: search and
\* search_in_document return an empty list and has_document returns False
\* when the backend raises, and no read changes seen_hashes or the persisted
\* chunks.
C35_ReadErrorsGiveEmpty ==
  [][ReadReturned =>
       /\ sr'.raised =>
            /\ sr'.op \in {"search", "search_in_document"} => sr'.ret = <<>>
            /\ sr'.op = "has_document" => sr'.ret = FALSE
       /\ seen_hashes' = seen_hashes
       /\ collection' = collection]_vars

\* the backend raised while has_document asked for a document the index
\* holds chunks of, and the call answered False
C35_Witness ==
  /\ sr # NoSearch /\ sr.op = "has_document" /\ sr.raised
  /\ HasDocument(sr.doc_id) /\ collection # {}
  /\ sr.ret = FALSE

\* the distances the backend can answer with: cosine distance, in hundredths
BackendDistances == 0..200

\* the fraction s is 1 / (1 + d) for a distance of d hundredths
IsOneOverOnePlus(s, d) == s.den > 0 /\ s.num * (100 + d) = 100 * s.den

\* s lies in [0, 1]
InUnitInterval(s) == s.den > 0 /\ s.num >= 0 /\ s.num <= s.den

\* the score is 1 / (1 + d), 1 at distance 0, within [0, 1] and strictly
\* decreasing over all backend distances
ScoreFunctionLaws ==
  /\ SimilarityScore(0).num = SimilarityScore(0).den
  /\ \A d \in BackendDistances :
       IsOneOverOnePlus(SimilarityScore(d), d) /\ InUnitInterval(SimilarityScore(d))
  /\ \A d1, d2 \in BackendDistances :
       d1 < d2 => ~ScoreGeq(SimilarityScore(d2), SimilarityScore(d1))

\* C27: the similarity score of a backend distance d >= 0 is 1 / (1 + d): 1
\* for d = 0, strictly decreasing in d and within [0, 1]; every result a search
\* function returns carries the score of its candidate's distance, and the
\* returned results, ranked by descending score, stand in ascending distance.
C27_ScoreIsOneOverOnePlusDistance ==
  /\ ScoreFunctionLaws
  /\ sr # NoSearch =>
       /\ \A k \in 1..Len(ResultsOf(sr)) :
            LET r == ResultsOf(sr)[k]
            IN /\ IsOneOverOnePlus(r.similarity_score, Distance(sr.query, r.text))
               /\ InUnitInterval(r.similarity_score)
       /\ \A i, j \in 1..Len(ResultsOf(sr)) :
            i < j => Distance(sr.query, ResultsOf(sr)[i].text)
                       <= Distance(sr.query, ResultsOf(sr)[j].text)
       /\ \A i, j \in 1..Len(sr.cands) :
            sr.cands[i].distance < sr.cands[j].distance
              => ~ScoreGeq(ScoreOf(sr.cands[j]), ScoreOf(sr.cands[i]))

\* a search returned a chunk at distance 0 before a chunk further away
C27_Witness ==
  /\ sr # NoSearch /\ Len(ResultsOf(sr)) = 2
  /\ Distance(sr.query, ResultsOf(sr)[1].text) = 0
  /\ ResultsOf(sr)[1].similarity_score.num = ResultsOf(sr)[1].similarity_score.den
  /\ Distance(sr.query, ResultsOf(sr)[2].text) > 0

OneThird == [num |-> 1, den |-> 3]

\* over the whole range of the cosine distance the score is at least 1/3 and
\* reaches the default threshold
DefaultThresholdPassesAll ==
  \A d \in BackendDistances :
    /\ ScoreGeq(SimilarityScore(d), OneThird)
    /\ PassesThreshold(SimilarityScore(d), DefaultThreshold)

RECURSIVE ConcatFound(_)
ConcatFound(visits) ==
  IF visits = <<>> THEN <<>> ELSE Head(visits).found \o ConcatFound(Tail(visits))

Elems(rs) == {rs[k] : k \in 1..Len(rs)}

ScoreAbove(a, b) == ~ScoreGeq(b, a)

\* the for loop over the files has ended and ask_ollama has not returned
LoopDone(t) == t.pc \in {"rank", "replying"}

\* C12: in global mode the chunk list handed to ask_ollama holds the 4
\* highest-scoring chunks of the concatenation of the per-document result
\* lists, in descending score order, fewer than 4 only if fewer exist; a chunk
\* that scores above a handed chunk is handed too and stands before it.
C12_GlobalBestFour ==
  \A k \in 1..Len(tasks) :
    (tasks[k].kind = "global" /\ tasks[k].asked /\ tasks[k].pc = "replying") =>
      LET all == tasks[k].all_results
          best == tasks[k].handed
      IN /\ all = ConcatFound(tasks[k].visits)
         /\ Len(best) = Min(4, Len(all))
         /\ \A i \in 1..(Len(best) - 1) :
              ScoreGeq(best[i].similarity_score, best[i + 1].similarity_score)
         /\ Elems(best) \subseteq Elems(all)
         /\ \A i, j \in 1..Len(best) : i # j => best[i] # best[j]
         /\ \A x \in Elems(all), j \in 1..Len(best) :
              ScoreAbove(x.similarity_score, best[j].similarity_score)
                => \E i \in 1..(j - 1) : best[i] = x

\* five files gave a chunk each, scores 0.4, 0.9, 0.4, 0.8, 0.85 in file
\* order, and four were handed on
C12_Witness ==
  \E k \in 1..Len(tasks) :
    /\ tasks[k].kind = "global" /\ tasks[k].asked
    /\ Len(tasks[k].all_results) = 5 /\ Len(tasks[k].handed) = 4
    /\ tasks[k].all_results[1].similarity_score = SimilarityScore(150)
    /\ tasks[k].handed[1].similarity_score = SimilarityScore(11)

\* C13: in global mode a document whose indexing or search fails is skipped
\* without aborting the query: every listed file is visited in order, none is
\* left out after a failure, and when the loop has ended all_results is the
\* concatenation of what the search gave for each file, tagged with it.
C13_FailedDocumentSkipped ==
  \A k \in 1..Len(tasks) :
    tasks[k].kind = "global" =>
      LET t == tasks[k]
      IN /\ Len(t.visits) + Len(t.rest) = Len(t.files)
         /\ \A i \in 1..Len(t.visits) :
              /\ t.visits[i].doc = t.files[i]
              /\ \A x \in Elems(t.visits[i].found) :
                   x.source_pdf = t.files[i] /\ x.doc_id = t.files[i]
         /\ LoopDone(t) =>
              /\ t.rest = <<>>
              /\ t.all_results = ConcatFound(t.visits)
              /\ t.pc # "rank" => (t.asked \/ t.reply = "no_info")

\* add_document failed for one file, the search of another raised, and a
\* chunk of a file visited after both was handed to ask_ollama
C13_Witness ==
  \E k \in 1..Len(tasks) :
    /\ tasks[k].kind = "global" /\ LoopDone(tasks[k]) /\ tasks[k].asked
    /\ \E i, j, m \in 1..Len(tasks[k].visits) :
         /\ tasks[k].visits[i].ensure = "add_failed"
         /\ tasks[k].visits[j].raised
         /\ i < m /\ j < m /\ i # j
         /\ tasks[k].visits[m].found # <<>>
         /\ Elems(tasks[k].visits[m].found) \subseteq Elems(tasks[k].handed)

\* C14: ask_ollama is invoked only with a non-empty chunk list, in scoped and
\* in global mode; a handler whose search gave nothing replies that no
\* relevant information was found and does not call ask_ollama.
C14_AskOnlyWithChunks ==
  \A k \in 1..Len(tasks) :
    LET t == tasks[k]
    IN /\ t.asked => t.reply # "no_info"
       /\ (t.asked /\ t.pc = "replying") => t.handed # <<>>
       /\ (t.kind \in {"global", "specific"} /\ t.pc \in {"replying", "done"})
            => (t.asked \/ t.reply = "no_info")
       /\ (t.kind = "global" /\ t.pc = "replying") => (t.asked <=> t.all_results # <<>>)

\* has_document raised at line 317 and answered at line 210; the scoped
\* handler found the chunk of its document and called ask_ollama with it
C14_Witness ==
  \E k \in 1..Len(tasks) :
    /\ tasks[k].kind = "specific" /\ tasks[k].pc = "replying"
    /\ tasks[k].ensure = "indexed"
    /\ tasks[k].asked /\ Len(tasks[k].handed) = 1

\* the entries of a result list that carry the tag of file d
FromFile(rs, d) == {i \in 1..Len(rs) : rs[i].source_pdf = d}

\* C32: in the result list of a global query no document has more than 2
\* chunks, and the source_pdf tag of every chunk is the file whose search
\* returned it, which is the doc_id the chunk is stored under.
C32_TwoChunksPerDocumentTagged ==
  \A k \in 1..Len(tasks) :
    tasks[k].kind = "global" =>
      LET t == tasks[k]
      IN /\ \A d \in Docs \cup {t.files[i] : i \in 1..Len(t.files)} :
              /\ Cardinality(FromFile(t.all_results, d)) <= 2
              /\ Cardinality(FromFile(t.handed, d)) <= 2
         /\ \A i \in 1..Len(t.all_results) :
              /\ t.all_results[i].source_pdf = t.all_results[i].doc_id
              /\ \E r \in collection : /\ r.doc_id = t.all_results[i].source_pdf
                                        /\ r.text = t.all_results[i].text
         /\ \A v \in 1..Len(t.visits) :
              /\ Len(t.visits[v].found) <= 2
              /\ \A i \in 1..Len(t.visits[v].found) :
                   t.visits[v].found[i].source_pdf = t.visits[v].doc
         /\ LoopDone(t) => t.all_results = ConcatFound(t.visits)

\* a global query over an index that holds three chunks of a.pdf took two of
\* them, and chunks of another file
C32_Witness ==
  \E k \in 1..Len(tasks) :
    /\ tasks[k].kind = "global" /\ tasks[k].pc = "replying"
    /\ Cardinality({r \in collection : r.doc_id = "a.pdf"}) = 3
    /\ Cardinality(FromFile(tasks[k].all_results, "a.pdf")) = 2
    /\ \E i \in 1..Len(tasks[k].all_results) : tasks[k].all_results[i].source_pdf # "a.pdf"

\* the reply of the model server holds one of the known not-found phrasings,
\* in whatever letter case
HasNotFoundPhrasing(text) == \E k \in 1..Len(text) : text[k].txt \in not_found_patterns

\* handler k has a reply of the model server in hand and is sending its message
Answering(k) == tasks[k].pc = "sending" /\ ~tasks[k].llm.raised

LetterCases == {"lower", "upper", "mixed"}

\* replies with a known phrasing: each of the six in each letter case, alone,
\* after other text and before other text; and the empty and blank replies
NegativeReplies ==
  {<<>>, <<Piece(" ", "mixed")>>, <<Piece(" ", "mixed"), Piece(" ", "mixed")>>}
  \cup UNION {{<<Piece(p, c)>>,
               <<Piece("the answer is ", "mixed"), Piece(p, c)>>,
               <<Piece(p, c), Piece(" in the documents.", "mixed")>>}
              : p \in not_found_patterns, c \in LetterCases}

\* every such reply leaves ask_ollama as a text in which the handlers find
\* the sentinel, and an answer leaves it unchanged and without the sentinel
NegativeRepliesGiveSentinel ==
  /\ \A r \in NegativeReplies :
       /\ IsBlankText(r) \/ HasNotFoundPhrasing(r)
       /\ SaysNotFound(AskOllama([raised |-> FALSE, reply |-> r]))
  /\ \A r \in OllamaReplies :
       ~(IsBlankText(r) \/ HasNotFoundPhrasing(r)) =>
         /\ AskOllama([raised |-> FALSE, reply |-> r]) = r
         /\ ~SaysNotFound(r)

\* C28: whenever the reply of the model server holds one of the known
\* not-found phrasings in any letter case, or is empty or blank, the handler
\* sends the not-found message and does not send that reply as an answer; a
\* reply without such a phrasing is sent as the answer.
C28_NotFoundReplyGivesNegativeResult ==
  /\ NegativeRepliesGiveSentinel
  /\ \A k \in 1..Len(tasks) :
       Answering(k) =>
         LET t == tasks[k]
         IN IF IsBlankText(t.llm.reply) \/ HasNotFoundPhrasing(t.llm.reply)
              THEN t.reply = "not_found" /\ t.shown = <<>>
              ELSE t.reply = "answer" /\ t.shown = t.llm.reply

\* a reply with a not-found phrasing in mixed case was turned into the
\* not-found message
C28_Witness ==
  \E k \in 1..Len(tasks) :
    /\ Answering(k)
    /\ Contains(tasks[k].llm.reply, "information nicht gefunden", "mixed")
    /\ tasks[k].reply = "not_found"

\* C29: when the answering call fails, the user receives the not-found message
\* and the error text of the failed call is not sent to the user as an answer.
C29_FailedAnswerGivesNotFound ==
  \A k \in 1..Len(tasks) :
    (tasks[k].pc = "sending" /\ tasks[k].llm.raised) =>
      tasks[k].reply = "not_found" /\ tasks[k].shown # SystemErrorText

\* --------------------------------------------------- claims on the users
\* what get_pdf_files finds in the working directory
PdfsOnDisk == {f \in disk : LowerEndsWithPdf(f)}

\* C33: the documents a global query fans out over are the PDF files in the
\* working directory when the query takes its list: a PDF that appeared on
\* disk after an earlier listing is searched by the next global query, and a
\* query does not change the shared list.
C33_GlobalQueryListsDisk ==
  [][\A u \in User_ids :
       (TextMessage(u) /\ SelectedOf(user_selected_doc, u) = NoSelection) =>
         /\ Elems(pdf_files') = PdfsOnDisk
         /\ pdf_files' = pdf_files]_vars

\* C36: the document stored as a user's selection by a doc_<i> button press
\* is the document whose name was shown on the button pressed, whatever
\* /start commands, callbacks and changes of the files on disk came between
\* the keyboard being sent and the press being handled.
C36_SelectionIsShownButton ==
  [][\A c \in callbacks :
       (c.pc = "answer" /\ c.data = "doc" /\ [c EXCEPT !.pc = "edit"] \in callbacks') =>
         SelectedOf(user_selected_doc', c.user) = c.label]_vars

\* user u's own button press has been worked through in this step
OwnPressHandled(u) ==
  \E c \in callbacks :
    /\ c.user = u /\ c.pc = "answer" /\ c.data \in {"global_search", "doc"}
    /\ c \notin callbacks'

\* the selection of u changes only when a button press of u is handled, and
\* a text message of u goes to the scoped search of u's stored document when
\* there is one and to the global search when there is none
OwnSelectionOnly(u) ==
  LET before == SelectedOf(user_selected_doc, u)
      after == SelectedOf(user_selected_doc', u)
  IN /\ after # before => OwnPressHandled(u)
     /\ TextMessage(u) =>
          /\ after = before
          /\ routed'.user = u
          /\ routed'.doc = before
          /\ routed'.kind = IF before = NoSelection THEN "global" ELSE "specific"

\* the document u is in scoped mode on after a press of u has been handled is
\* the document u selected with that press
SelectedAsChosen(u) ==
  \A c \in callbacks :
    (c.user = u /\ c.pc = "answer" /\ c.data = "doc" /\ c \notin callbacks') =>
      SelectedOf(user_selected_doc', u) \in {c.label, SelectedOf(user_selected_doc, u)}

\* C37: a user's retrieval mode depends only on that user's own latest
\* selection: after u selects document d the text messages of u go to the
\* scoped search on d until u presses global search or selects another
\* document, and no command, callback or message of another user changes u's
\* mode or selected document.
C37_ModeDependsOnOwnSelection ==
  [][\A u \in User_ids : OwnSelectionOnly(u) /\ SelectedAsChosen(u)]_vars

\* ------------------------------------------------- claims on the extractor
\* the pages whose task gave a text that is not empty after strip()
NonBlankPages == {p \in 1..Len(ex.pages) : Strip(ex.pages[p].ret).ws # <<>>}

\* the native read of the page raised and no OCR read gave a text
PageFailed(page) ==
  page.pc = "done" /\ page.native_raised /\ page.passes = 2 /\ page.best = NoBest

\* C21: extract_paragraphs_from_pdf returns the page texts in page order, one
\* entry for each page that produced non-empty text and none for a page that
\* failed or produced nothing, whatever order the page tasks completed in.
C21_PageTextsInPageOrder ==
  (ex.pc = "returned" /\ ~ex.unreadable) =>
    /\ Len(ex.out) = Cardinality(NonBlankPages)
    /\ \A k \in 1..Len(ex.out) :
         /\ ex.out[k].page \in NonBlankPages
         /\ ex.out[k] = Strip(ex.pages[ex.out[k].page].ret)
    /\ \A k, m \in 1..Len(ex.out) : k < m => ex.out[k].page < ex.out[m].page
    /\ \A p \in 1..Len(ex.pages) :
         /\ ex.pages[p].ret.page \in {0, p}
         /\ PageFailed(ex.pages[p]) => \A k \in 1..Len(ex.out) : ex.out[k].page # p

\* page 2 was done before page 1, which went through OCR, and both are
\* returned, page 1 first
C21_Witness ==
  /\ ex.pc = "returned" /\ ex.finished = <<2, 1>>
  /\ ex.pages[1].passes = 2
  /\ Len(ex.out) = 2 /\ ex.out[1].page = 1 /\ ex.out[2].page = 2

\* C22: extract_paragraphs_from_pdf never raises; a file that cannot be
\* read, a document without pages or without a page that gives text, and
\* failures on every page give an empty list.
C22_ExtractNeverRaises ==
  ex.pc = "returned" =>
    /\ ~ex.raised
    /\ (\/ ex.unreadable
        \/ ex.pages = <<>>
        \/ NonBlankPages = {}
        \/ \A p \in 1..Len(ex.pages) : PageFailed(ex.pages[p]))
         => ex.out = <<>>

\* both pages failed: the native read raised and no OCR pass gave a text
C22_Witness ==
  /\ ex.pc = "returned" /\ ~ex.raised /\ Len(ex.pages) = 2
  /\ \A p \in 1..Len(ex.pages) : PageFailed(ex.pages[p])
  /\ ex.out = <<>>

\* the sufficiency test: at least 120 characters without whitespace, at
\* least 60 of them letters or digits, at least 20 words
SufficientByThresholds(t) ==
  /\ Truthy(t)
  /\ CleanedLen(t) >= 120
  /\ SumAlnum(t.ws) >= 60
  /\ Len(t.ws) >= 20

\* C23: per page the extractor returns the native text when it is
\* sufficient, and OCR is then not run; otherwise the OCR text when that is
\* sufficient; otherwise the native text if it is non-empty, else the best
\* OCR text. A page without native text yields the OCR text.
C23_NativeThenOcr ==
  ex.pc \in {"gather", "returned"} =>
    \A p \in 1..Len(ex.pages) :
      LET page == ex.pages[p]
          n == page.native
          b == page.best.text
      IN /\ page.pc = "ocr" => ~SufficientByThresholds(n)
         /\ page.pc = "done" =>
              /\ SufficientByThresholds(n) => (page.ret = n /\ page.passes = 0)
              /\ ~SufficientByThresholds(n) =>
                   /\ page.passes = 2
                   /\ page.ret = IF SufficientByThresholds(b) THEN b
                                 ELSE IF n # EmptyText THEN n ELSE b
              /\ n = EmptyText => page.ret = b

\* page 1 has a sufficient native text and was not put through OCR, page 2
\* has no native text and gave its OCR text; two texts are returned
C23_Witness ==
  /\ ex.pc = "returned" /\ Len(ex.pages) = 2
  /\ SufficientByThresholds(ex.pages[1].native) /\ ex.pages[1].passes = 0
  /\ ex.pages[2].native = EmptyText /\ ex.pages[2].passes = 2
  /\ SufficientByThresholds(ex.pages[2].ret)
  /\ Len(ex.out) = 2 /\ ex.out[2] = Strip(ex.pages[2].best.text)

\* C34: _extract_text_ocr returns the text of highest quality among the reads
\* that completed, at whatever resolution and mode; a render or a read that
\* failed discards nothing of the others; when no read completed or every
\* text has quality 0 the empty text is returned.
C34_OcrKeepsBestCompletedRead ==
  LET ocr == ex.best.text
  IN /\ ocr \in ex.completed \cup {EmptyText}
     /\ \A t \in ex.completed : EvaluateOcrQualityOf(t) <= EvaluateOcrQualityOf(ocr)
     /\ (\A t \in ex.completed : EvaluateOcrQualityOf(t) = 0) <=> ocr = EmptyText
     /\ ex.pc = "returned" => ex.ret = ocr

\* OCR returned the full page it read at the first resolution, although the
\* render at the second failed and other reads gave whitespace and fewer words
C34_Witness ==
  /\ ex.pc = "returned"
  /\ ex.ocr_failed
  /\ Cardinality(ex.completed) = 3
  /\ Len(ex.ret.ws) = 20

\* --------------------------------------------------- claims on the chunker
\* the last k words of chunk a are the first k words of chunk b
SharesWords(a, b, k) ==
  /\ Len(a) >= k /\ Len(b) >= k
  /\ SubSeq(a, Len(a) - k + 1, Len(a)) = SubSeq(b, 1, k)

RECURSIVE ConcatChunks(_)
ConcatChunks(cs) == IF cs = <<>> THEN <<>> ELSE Head(cs) \o ConcatChunks(Tail(cs))

\* C24: for chunk_overlap = k with 0 < k < chunk_size every pair of adjacent
\* chunks the chunker appends shares exactly k words: the last k words of the
\* earlier chunk are the first k words of the later one, and the later window
\* starts exactly k words before the end of the earlier one.
C24_AdjacentChunksShareOverlap ==
  (cfg.chunk_overlap > 0 /\ split_pc \in {"loop", "done"}) =>
    /\ \A i \in 1..(Len(chunks) - 1) : SharesWords(chunks[i], chunks[i + 1], cfg.chunk_overlap)
    /\ (split_pc = "loop" /\ chunks # <<>>) =>
         /\ start = end - cfg.chunk_overlap
         /\ chunks[Len(chunks)] = Slice(words, end - Len(chunks[Len(chunks)]), end)

\* three words in windows of two with an overlap of one: two chunks that
\* differ have been appended
C24_Witness ==
  /\ cfg.chunk_overlap > 0 /\ split_pc = "loop"
  /\ Len(chunks) >= 2 /\ chunks[1] # chunks[2]
  /\ Len(chunks[1]) > cfg.chunk_overlap

\* C25: for chunk_overlap = 0, any chunk_size >= 1 and any text, the word
\* sequences of the returned chunks, concatenated in order, are the word
\* sequence of the text: no word is lost, duplicated or reordered.
C25_ChunksReconstituteText ==
  (cfg.chunk_overlap = 0 /\ split_pc = "done") => ConcatChunks(chunks) = words

\* a text of more than one chunk whose last chunk is shorter than the others
C25_Witness ==
  /\ cfg.chunk_overlap = 0 /\ split_pc = "done"
  /\ Len(chunks) >= 2 /\ Len(chunks[Len(chunks)]) < cfg.chunk_size
  /\ chunks[1] # chunks[Len(chunks)]

\* C1: _split_text_into_chunks terminates for every text when
\* 0 <= chunk_overlap < chunk_size: every iteration of the window loop moves
\* the window start forward, so the loop ends after at most len(words)
\* iterations with a finite list of chunks.
C1_SplitTerminates == [][SplitIter => start' > start]_vars

=============================================================================
